---- MODULE Spec2Model ----
(***************************************************************************)
(* Debt payoff simulator of the wealth tracker (src/src/lib/calc/payoff.ts)*)
(* as a state machine: compareStrategies calls simulatePayoff once per     *)
(* strategy; each call runs the cascading month loop, the isolated         *)
(* per-debt replays (simulateDebtPayoff) and the baseline                  *)
(* (simulatePayoffBaseline), one action per loop iteration.                *)
(*                                                                         *)
(* Numbers.  The code computes in IEEE doubles.  The model computes in     *)
(* fixed point: money is an integer number of mils (1/1000 of a currency   *)
(* unit, so 0.01 is Cent = 10 mils), apr is an integer number of percent   *)
(* (apr 0.12 is 12), and a quotient is rounded down to a whole mil.        *)
(***************************************************************************)
EXTENDS Integers, Sequences, FiniteSets

\* ------------------------------------------------------------------ bounds
\* Longest debt list given to the simulator.
MaxDebts == 2

\* ------------------------------------------------------- number conversion
\* Mils per currency unit: the resolution of the fixed-point numbers.
Unit == 1000
\* 0.01 currency unit, the paid-off threshold of the three loops.
Cent == Unit \div 100
\* apr 1.0 (100 percent): the scale of the apr field.
AprScale == 100

Min(a, b) == IF a <= b THEN a ELSE b
Max(a, b) == IF a >= b THEN a ELSE b

\* floor(x * n / d) for x >= 0, n >= 0, d > 0, without forming x * n.
MulDiv(x, n, d) == (x \div d) * n + ((x % d) * n) \div d

\* Math.round(x * 100) / 100: to the nearest cent, a half goes up.
Round2(x) == ((x + (Cent \div 2)) \div Cent) * Cent

\* ------------------------------------------------------------------ inputs
\* The debts a caller may pass (balance >= 0, 0 <= apr <= 1, minPayment > 0).
DebtKinds ==
  { [name |-> "card",     balance |-> 200000 * Unit, apr |-> 12, minPayment |-> 102000 * Unit],
    [name |-> "bigcard",  balance |-> 400000 * Unit, apr |-> 12, minPayment |-> 102000 * Unit],
    [name |-> "friend",   balance |-> 150000 * Unit, apr |-> 0,  minPayment |-> 1000 * Unit],
    [name |-> "underpaid",balance |-> 150000 * Unit, apr |-> 1,  minPayment |-> 100 * Unit],
    [name |-> "slow",     balance |-> 100000 * Unit, apr |-> 12, minPayment |-> 1000 * Unit + 100],
    [name |-> "longhaul", balance |-> 599000 * Unit, apr |-> 0,  minPayment |-> 1000 * Unit],
    [name |-> "dust",     balance |-> Cent,          apr |-> 12, minPayment |-> 1000 * Unit] }

\* The extra monthly payments a caller may pass: none, or 100000.
Extras == { 0, 100000 * Unit }

\* A debt list: different kinds in any order, ids are the positions in the list.
WithIds(ks) == [i \in 1..Len(ks) |->
                 [id |-> i, name |-> ks[i].name, balance |-> ks[i].balance,
                  apr |-> ks[i].apr, minPayment |-> ks[i].minPayment]]
DebtLists ==
  { WithIds(ks) : ks \in UNION { { f \in [1..n -> DebtKinds] :
                                    \A i, j \in 1..n : i # j => f[i] # f[j] } :
                                  n \in 0..MaxDebts } }

\* ---------------------------------------------------------------- ordering
\* A faulty calculateMonthlyInterest: the annual rate, not divided by 12.
calculateMonthlyInterestAnnual(balance, apr) == MulDiv(balance, apr, AprScale)
calculateMonthlyInterest(balance, apr) == MulDiv(balance, apr, 12 * AprScale)

\* The comparators: (a, b) => b.apr - a.apr and (a, b) => a.balance - b.balance
Comparator(strat, a, b) ==
  IF strat = "avalanche" THEN b.apr - a.apr ELSE a.balance - b.balance

\* Array.prototype.sort is stable: an element comes after every element that
\* the comparator puts before it and after every earlier element it ties with.
\* Place(s, i, strat) is the position of s[i] in the sorted copy.
Place(s, i, strat) ==
  1 + Cardinality({ j \in 1..Len(s) :
                     \/ Comparator(strat, s[j], s[i]) < 0
                     \/ Comparator(strat, s[j], s[i]) = 0 /\ j < i })
StableSort(s, strat) ==
  [k \in 1..Len(s) |-> s[CHOOSE i \in 1..Len(s) : Place(s, i, strat) = k]]

\* A faulty sortForAvalanche: an unstable sort, equal aprs come out reversed.
PlaceTiesReversed(s, i) ==
  1 + Cardinality({ j \in 1..Len(s) :
                     \/ s[j].apr > s[i].apr
                     \/ s[j].apr = s[i].apr /\ j > i })
sortForAvalancheTiesReversed(ds) ==
  [k \in 1..Len(ds) |-> ds[CHOOSE i \in 1..Len(ds) : PlaceTiesReversed(ds, i) = k]]
\* A faulty sortForAvalanche: (a, b) => a.apr - b.apr, the lowest apr first.
PlaceAprAscending(s, i) ==
  1 + Cardinality({ j \in 1..Len(s) :
                     \/ s[j].apr < s[i].apr
                     \/ s[j].apr = s[i].apr /\ j < i })
sortForAvalancheAscending(ds) ==
  [k \in 1..Len(ds) |-> ds[CHOOSE i \in 1..Len(ds) : PlaceAprAscending(ds, i) = k]]
sortForAvalanche(ds) == StableSort(ds, "avalanche")
sortForSnowball(ds) == StableSort(ds, "snowball")

\* ------------------------------------------------------------------- state
VARIABLES
  debts,                \* compareStrategies' argument, as the caller holds it
  extraMonthlyPayment,  \* compareStrategies' argument
  pc,                   \* where the call is
  strategy,             \* simulatePayoff's argument in the running call
  sortedDebts,          \* simulatePayoff: sortedDebts
  remainingDebts,       \* simulatePayoff: remainingDebts (currentBalance, paid)
  currentMonth,         \* simulatePayoff: currentMonth
  totalInterestPaid,    \* simulatePayoff: totalInterestPaid (unrounded)
  lastMonth,            \* what the last pass of the cascading loop did
  results,              \* simulatePayoff: results
  replay,               \* simulateDebtPayoff's locals in the running replay
  baseline,             \* simulatePayoffBaseline's locals
  simulation,           \* the PayoffSimulation the last call returned
  avalanche,            \* compareStrategies: avalanche
  snowball,             \* compareStrategies: snowball
  comparison,           \* compareStrategies' result
  data,                 \* buildRulesContext's argument
  ctx,                  \* the RulesContext buildRulesContext returned
  rulesPc,              \* where the dashboard's rule evaluation is
  ruleIndex,            \* evaluateRules: position of the for loop in RULES
  alerts,               \* evaluateRules: alerts
  logged,               \* the rules whose failure console.error reported
  cashflow,             \* the CashflowSummary the dashboard computed
  debtToIncome,         \* the debts page's debt-to-income ratio
  db,                   \* the database tables importData reads and writes
  dbInitial,            \* the tables as they were before the first import
  importCount,          \* the number of importData calls that have returned
  lastImport,           \* the last importData call: its data, the data of the
                        \* call before it, its result and the tables before it
  metricsDebts,         \* calculateDebtMetrics' argument
  metrics,              \* what calculateDebtMetrics returned
  clock,                \* Date.now()
  lastRequestTime,      \* the CoinGecko provider's lastRequestTime
  callerPc,             \* where each fetchPrice / fetchPrices call is
  wakeAt,               \* when each call's setTimeout is due
  requests              \* the requests sent to CoinGecko, with their times

payoffVars == << debts, extraMonthlyPayment, pc, strategy, sortedDebts, remainingDebts,
                 currentMonth, totalInterestPaid, lastMonth, results, replay, baseline,
                 simulation, avalanche, snowball, comparison >>
rulesVars == << data, ctx, rulesPc, ruleIndex, alerts, logged, cashflow, debtToIncome >>
importVars == << db, dbInitial, importCount, lastImport >>
metricsVars == << metricsDebts, metrics >>
limiterVars == << clock, lastRequestTime, callerPc, wakeAt, requests >>
notPayoffVars == << rulesVars, importVars, metricsVars, limiterVars >>
notRulesVars == << payoffVars, importVars, metricsVars, limiterVars >>
notImportVars == << payoffVars, rulesVars, metricsVars, limiterVars >>
notMetricsVars == << payoffVars, rulesVars, importVars, limiterVars >>
notLimiterVars == << payoffVars, rulesVars, importVars, metricsVars >>
vars == << payoffVars, rulesVars, importVars, metricsVars, limiterVars >>

\* const maxMonths = 600 (simulateDebtPayoff, simulatePayoff, the baseline)
maxMonths == 600

None == [none |-> TRUE]
NoMonth == [ran |-> FALSE]
NoReplay == [active |-> FALSE]
NoBaseline == [active |-> FALSE]

\* The first debt that is neither paid nor at most 0.01, or 0 if there is none:
\* remainingDebts.find((d) => !d.paid && d.currentBalance > 0.01)
Unpaid(d) == ~d.paid /\ d.currentBalance > Cent
PriorityIndex(rem) ==
  IF \E i \in 1..Len(rem) : Unpaid(rem[i])
  THEN CHOOSE i \in 1..Len(rem) :
         Unpaid(rem[i]) /\ \A j \in 1..(i - 1) : ~Unpaid(rem[j])
  ELSE 0

\* remainingDebts.filter((d) => d.paid).reduce((sum, d) => sum + d.minPayment, 0)
RECURSIVE FreedPayments(_, _)
FreedPayments(rem, i) ==
  IF i > Len(rem) THEN 0
  ELSE (IF rem[i].paid THEN rem[i].minPayment ELSE 0) + FreedPayments(rem, i + 1)

\* A faulty CapPayment: the payment is not capped.
CapPaymentUncapped(payment, balance, interest) == payment

\* Math.min(payment, debt.currentBalance + interest)
CapPayment(payment, balance, interest) == Min(payment, balance + interest)

\* The debt whose turn it is gets the extra if it is the first unpaid debt of
\* remainingDebts as they are at its turn.
IsPriority(rem, i) == rem[i].id = rem[PriorityIndex(rem)].id

\* if (debt.currentBalance <= 0.01) { debt.paid = true; debt.currentBalance = 0 }
Settle(d, balance) ==
  IF balance <= Cent
  THEN [d EXCEPT !.currentBalance = 0, !.paid = TRUE]
  ELSE [d EXCEPT !.currentBalance = balance]

\* One turn of the for loop over remainingDebts, for the debt at position i.
\* st = [rem, interest (added to totalInterestPaid), rows (one per debt)].
PayDebt(st, i, totalExtra) ==
  LET debt == st.rem[i] IN
  IF debt.paid \/ debt.currentBalance <= Cent
  THEN [st EXCEPT !.rows = Append(@, [skipped |-> TRUE])]
  ELSE
    LET interest == calculateMonthlyInterest(debt.currentBalance, debt.apr)
        wanted == debt.minPayment + (IF IsPriority(st.rem, i) THEN totalExtra ELSE 0)
        payment == CapPayment(wanted, debt.currentBalance, interest)
        principal == payment - interest
        balance == Max(0, debt.currentBalance - principal)
    IN [rem |-> [st.rem EXCEPT ![i] = Settle(debt, balance)],
        interest |-> st.interest + interest,
        rows |-> Append(st.rows,
                   [skipped |-> FALSE, before |-> debt.currentBalance,
                    interest |-> interest, payment |-> payment])]

RECURSIVE PayDebts(_, _, _)
PayDebts(st, i, totalExtra) ==
  IF i > Len(st.rem) THEN st
  ELSE PayDebts(PayDebt(st, i, totalExtra), i + 1, totalExtra)

\* A faulty MonthPass: the extra is taken off the freed payments.
MonthPassExtraSubtracted(rem, extra) ==
  LET freedPayments == FreedPayments(rem, 1)
      totalExtra == Max(0, freedPayments - extra)
  IN PayDebts([rem |-> rem, interest |-> 0, rows |-> << >>], 1, totalExtra)

\* The body of the cascading loop: freedPayments, totalExtra, and the for
\* loop over remainingDebts.
MonthPass(rem, extra) ==
  LET freedPayments == FreedPayments(rem, 1)
      totalExtra == extra + freedPayments
  IN PayDebts([rem |-> rem, interest |-> 0, rows |-> << >>], 1, totalExtra)

\* remainingDebts.some((d) => !d.paid && d.currentBalance > 0.01) &&
\* currentMonth < maxMonths
CascadeContinues(rem, month) ==
  /\ \E i \in 1..Len(rem) : Unpaid(rem[i])
  /\ month < maxMonths

\* sortedDebts.map((d) => ({ ...d, currentBalance: d.balance, paid: false }))
Remaining(sorted) ==
  [i \in 1..Len(sorted) |->
    [id |-> sorted[i].id, name |-> sorted[i].name,
     balance |-> sorted[i].balance, apr |-> sorted[i].apr,
     minPayment |-> sorted[i].minPayment,
     currentBalance |-> sorted[i].balance, paid |-> FALSE]]

\* The cascading loop run to its end from remainingDebts rem at month, with
\* interest accumulated so far: the value of totalInterestPaid after the loop.
RECURSIVE CascadeLoop(_, _, _, _)
CascadeLoop(rem, month, interest, extra) ==
  IF CascadeContinues(rem, month)
  THEN LET st == MonthPass(rem, extra)
       IN CascadeLoop(st.rem, month + 1, interest + st.interest, extra)
  ELSE interest

\* simulatePayoff(ds, strat, extra).totalInterestPaid
InterestPaid(ds, strat, extra) ==
  IF Len(ds) = 0 THEN 0
  ELSE LET sorted == IF strat = "avalanche"
                     THEN sortForAvalanche(ds) ELSE sortForSnowball(ds)
       IN Round2(CascadeLoop(Remaining(sorted), 1, 0, extra))

\* ------------------------------------------------------------------ actions
\* No rule evaluation is under way.
RulesIdle ==
  /\ data = None
  /\ ctx = None
  /\ rulesPc = "idle"
  /\ ruleIndex = 0
  /\ alerts = << >>
  /\ logged = << >>
  /\ cashflow = None
  /\ debtToIncome = None

\* No import is under way.
ImportIdle ==
  /\ db = None
  /\ dbInitial = None
  /\ importCount = 0
  /\ lastImport = None

\* calculateDebtMetrics has not been called.
MetricsIdle ==
  /\ metricsDebts = None
  /\ metrics = None

\* No price is being fetched.
LimiterIdle ==
  /\ clock = 0
  /\ lastRequestTime = 0
  /\ callerPc = << >>
  /\ wakeAt = << >>
  /\ requests = << >>

Init ==
  /\ debts \in DebtLists
  /\ extraMonthlyPayment \in Extras
  /\ pc = "compare"
  /\ strategy = "avalanche"
  /\ sortedDebts = << >>
  /\ remainingDebts = << >>
  /\ currentMonth = 1
  /\ totalInterestPaid = 0
  /\ lastMonth = NoMonth
  /\ results = << >>
  /\ replay = NoReplay
  /\ baseline = NoBaseline
  /\ simulation = None
  /\ avalanche = None
  /\ snowball = None
  /\ comparison = None
  /\ RulesIdle
  /\ ImportIdle
  /\ MetricsIdle
  /\ LimiterIdle

\* A faulty EmptySimulation: the extra payment is not echoed.
EmptySimulationNoExtra(strat, extra) ==
  [strategy |-> strat, extraPayment |-> 0, debts |-> << >>, totalMonths |-> 0,
   totalInterestPaid |-> 0, monthsSaved |-> 0, interestSaved |-> 0]

\* What simulatePayoff returns for an empty list.
EmptySimulation(strat, extra) ==
  [strategy |-> strat, extraPayment |-> extra, debts |-> << >>, totalMonths |-> 0,
   totalInterestPaid |-> 0, monthsSaved |-> 0, interestSaved |-> 0]

\* simulatePayoff(debts, strategy, extraMonthlyPayment) is entered: the first
\* call of compareStrategies with "avalanche", the second with "snowball".
\* An empty list returns at once.
SimulateEmpty ==
  /\ pc = "compare"
  /\ Len(debts) = 0
  /\ \/ avalanche = None /\ strategy' = "avalanche"
     \/ avalanche # None /\ snowball = None /\ strategy' = "snowball"
  /\ simulation' = EmptySimulation(strategy', extraMonthlyPayment)
  /\ avalanche' = IF strategy' = "avalanche" THEN simulation' ELSE avalanche
  /\ snowball' = IF strategy' = "snowball" THEN simulation' ELSE snowball
  /\ pc' = "compare"
  /\ UNCHANGED << debts, extraMonthlyPayment, sortedDebts, remainingDebts,
                  currentMonth, totalInterestPaid, lastMonth, results, replay,
                  baseline, comparison >>
  /\ UNCHANGED notPayoffVars

\* A non-empty list: sort a copy, set up remainingDebts and the loop's locals.
SimulateStart ==
  /\ pc = "compare"
  /\ Len(debts) # 0
  /\ \/ avalanche = None /\ strategy' = "avalanche"
     \/ avalanche # None /\ snowball = None /\ strategy' = "snowball"
  /\ sortedDebts' = IF strategy' = "avalanche"
                    THEN sortForAvalanche(debts) ELSE sortForSnowball(debts)
  /\ remainingDebts' = Remaining(sortedDebts')
  /\ results' = << >>
  /\ currentMonth' = 1
  /\ totalInterestPaid' = 0
  /\ lastMonth' = NoMonth
  /\ replay' = NoReplay
  /\ baseline' = NoBaseline
  /\ pc' = "cascade"
  /\ UNCHANGED << debts, extraMonthlyPayment, simulation, avalanche, snowball, comparison >>
  /\ UNCHANGED notPayoffVars

\* while (remainingDebts.some(...) && currentMonth < maxMonths)
CascadeRuns == CascadeContinues(remainingDebts, currentMonth)

\* One pass of the cascading loop: a simulated month.
CascadeMonth ==
  /\ pc = "cascade"
  /\ CascadeRuns
  /\ LET freedPayments == FreedPayments(remainingDebts, 1)
         totalExtra == extraMonthlyPayment + freedPayments
         st == MonthPass(remainingDebts, extraMonthlyPayment)
     IN /\ remainingDebts' = st.rem
        /\ totalInterestPaid' = totalInterestPaid + st.interest
        /\ lastMonth' = [ran |-> TRUE, month |-> currentMonth,
                         priority |-> PriorityIndex(remainingDebts),
                         totalExtra |-> totalExtra, rows |-> st.rows]
  /\ currentMonth' = currentMonth + 1
  /\ UNCHANGED << debts, extraMonthlyPayment, pc, strategy, sortedDebts, results,
                  replay, baseline, simulation, avalanche, snowball, comparison >>
  /\ UNCHANGED notPayoffVars

\* The cascading loop's condition is false: go on to the per-debt results.
CascadeExit ==
  /\ pc = "cascade"
  /\ ~CascadeRuns
  /\ pc' = "replay"
  /\ UNCHANGED << debts, extraMonthlyPayment, strategy, sortedDebts, remainingDebts,
                  currentMonth, totalInterestPaid, lastMonth, results, replay,
                  baseline, simulation, avalanche, snowball, comparison >>
  /\ UNCHANGED notPayoffVars

\* debt.minPayment + (sortedDebts[0].id === debt.id ? extraMonthlyPayment : 0)
ReplayPayment(sorted, i, extra) ==
  sorted[i].minPayment + (IF sorted[1].id = sorted[i].id THEN extra ELSE 0)

\* for (const debt of sortedDebts): simulateDebtPayoff(debt, payment) is entered
\* (startMonth is 1).  Of monthlyBreakdown the state keeps the number of rows
\* and the last row: a pushed row is never read or changed again.
ReplayStart ==
  /\ pc = "replay"
  /\ ~replay.active
  /\ Len(results) < Len(sortedDebts)
  /\ LET i == Len(results) + 1 IN
     replay' = [active |-> TRUE, debt |-> i,
                monthlyPayment |-> ReplayPayment(sortedDebts, i, extraMonthlyPayment),
                balance |-> sortedDebts[i].balance, totalPaid |-> 0, totalInterest |-> 0,
                month |-> 1, rows |-> 0, lastRow |-> None, prevRow |-> None,
                step |-> NoMonth]
  /\ UNCHANGED << debts, extraMonthlyPayment, pc, strategy, sortedDebts, remainingDebts,
                  currentMonth, totalInterestPaid, lastMonth, results, baseline,
                  simulation, avalanche, snowball, comparison >>
  /\ UNCHANGED notPayoffVars

\* A faulty ReplayRuns: the cap is tested as the cascading loop tests it.
ReplayRunsShort == replay.balance > Cent /\ replay.month < maxMonths

\* while (balance > 0.01 && month - startMonth < maxMonths)
ReplayRuns == replay.balance > Cent /\ replay.month - 1 < maxMonths

\* One pass of simulateDebtPayoff's loop.
ReplayMonth ==
  /\ pc = "replay"
  /\ replay.active
  /\ ReplayRuns
  /\ LET debt == sortedDebts[replay.debt]
         interest == calculateMonthlyInterest(replay.balance, debt.apr)
         payment == CapPayment(replay.monthlyPayment, replay.balance, interest)
         principal == payment - interest
         balance == Max(0, replay.balance - principal)
     IN replay' = [replay EXCEPT
                     !.balance = balance,
                     !.totalPaid = @ + payment,
                     !.totalInterest = @ + interest,
                     !.rows = @ + 1,
                     !.prevRow = replay.lastRow,
                     !.lastRow = [month |-> replay.month, balance |-> Round2(balance),
                                  principal |-> Round2(principal),
                                  interest |-> Round2(interest),
                                  payment |-> Round2(payment)],
                     !.month = @ + 1,
                     !.step = [ran |-> TRUE, before |-> replay.balance,
                               interest |-> interest, payment |-> payment]]
  /\ UNCHANGED << debts, extraMonthlyPayment, pc, strategy, sortedDebts, remainingDebts,
                  currentMonth, totalInterestPaid, lastMonth, results, baseline,
                  simulation, avalanche, snowball, comparison >>
  /\ UNCHANGED notPayoffVars

\* A faulty PayoffMonth: the month counter itself.
PayoffMonthNext(month) == month

\* payoffMonth: month - 1
PayoffMonth(month) == month - 1

\* simulateDebtPayoff returns; results.push(result).
ReplayReturn ==
  /\ pc = "replay"
  /\ replay.active
  /\ ~ReplayRuns
  /\ results' = Append(results,
                  [debtId |-> sortedDebts[replay.debt].id,
                   debtName |-> sortedDebts[replay.debt].name,
                   payoffMonth |-> PayoffMonth(replay.month),
                   totalPaid |-> Round2(replay.totalPaid),
                   totalInterest |-> Round2(replay.totalInterest),
                   monthlyBreakdown |-> [rows |-> replay.rows, lastRow |-> replay.lastRow],
                   finalBalance |-> replay.balance])
  /\ replay' = NoReplay
  /\ UNCHANGED << debts, extraMonthlyPayment, pc, strategy, sortedDebts, remainingDebts,
                  currentMonth, totalInterestPaid, lastMonth, baseline,
                  simulation, avalanche, snowball, comparison >>
  /\ UNCHANGED notPayoffVars

\* simulatePayoffBaseline(debts) is entered, with the caller's list.
BaselineStart ==
  /\ pc = "replay"
  /\ ~replay.active
  /\ Len(results) = Len(sortedDebts)
  /\ baseline' = [active |-> TRUE, totalInterest |-> 0, maxMonths |-> 0, debt |-> 1,
                  balance |-> debts[1].balance, months |-> 0, step |-> NoMonth]
  /\ pc' = "baseline"
  /\ UNCHANGED << debts, extraMonthlyPayment, strategy, sortedDebts, remainingDebts,
                  currentMonth, totalInterestPaid, lastMonth, results, replay,
                  simulation, avalanche, snowball, comparison >>
  /\ UNCHANGED notPayoffVars

\* while (balance > 0.01 && months < 600)
BaselineRuns ==
  /\ baseline.debt <= Len(debts)
  /\ baseline.balance > Cent
  /\ baseline.months < maxMonths

\* One pass of the baseline's inner loop.
BaselineMonth ==
  /\ pc = "baseline"
  /\ BaselineRuns
  /\ LET debt == debts[baseline.debt]
         interest == calculateMonthlyInterest(baseline.balance, debt.apr)
         payment == CapPayment(debt.minPayment, baseline.balance, interest)
         principal == payment - interest
     IN baseline' = [baseline EXCEPT
                       !.totalInterest = @ + interest,
                       !.balance = Max(0, baseline.balance - principal),
                       !.months = @ + 1,
                       !.step = [ran |-> TRUE, before |-> baseline.balance,
                                 interest |-> interest, payment |-> payment]]
  /\ UNCHANGED << debts, extraMonthlyPayment, pc, strategy, sortedDebts, remainingDebts,
                  currentMonth, totalInterestPaid, lastMonth, results, replay,
                  simulation, avalanche, snowball, comparison >>
  /\ UNCHANGED notPayoffVars

\* maxMonths = Math.max(maxMonths, months), and the for loop takes the next debt.
BaselineNextDebt ==
  /\ pc = "baseline"
  /\ baseline.debt <= Len(debts)
  /\ ~BaselineRuns
  /\ baseline' = [baseline EXCEPT
                    !.maxMonths = Max(@, baseline.months),
                    !.debt = @ + 1,
                    !.balance = IF baseline.debt < Len(debts)
                                THEN debts[baseline.debt + 1].balance ELSE 0,
                    !.months = 0,
                    !.step = NoMonth]
  /\ UNCHANGED << debts, extraMonthlyPayment, pc, strategy, sortedDebts, remainingDebts,
                  currentMonth, totalInterestPaid, lastMonth, results, replay,
                  simulation, avalanche, snowball, comparison >>
  /\ UNCHANGED notPayoffVars

\* A faulty MaxPayoffMonth: the payoff month of the first debt in order.
MaxPayoffMonthFirst(rs, i) == rs[i].payoffMonth

\* Math.max(...results.map((r) => r.payoffMonth))
RECURSIVE MaxPayoffMonth(_, _)
MaxPayoffMonth(rs, i) ==
  IF i = Len(rs) THEN rs[i].payoffMonth
  ELSE Max(rs[i].payoffMonth, MaxPayoffMonth(rs, i + 1))

\* The object simulatePayoff returns for a non-empty list.  base is what
\* simulatePayoffBaseline returned.
Totals(strat, extra, rs, interestPaid, base) ==
  LET totalMonths == MaxPayoffMonth(rs, 1) IN
  [strategy |-> strat, extraPayment |-> extra, debts |-> rs,
   totalMonths |-> totalMonths,
   totalInterestPaid |-> Round2(interestPaid),
   monthsSaved |-> Max(0, base.totalMonths - totalMonths),
   interestSaved |-> Max(0, Round2(base.totalInterestPaid - interestPaid))]

\* The baseline returns and simulatePayoff returns to compareStrategies.
SimulateReturn ==
  /\ pc = "baseline"
  /\ baseline.debt > Len(debts)
  /\ simulation' = Totals(strategy, extraMonthlyPayment, results, totalInterestPaid,
                          [totalMonths |-> baseline.maxMonths,
                           totalInterestPaid |-> Round2(baseline.totalInterest)])
  /\ avalanche' = IF strategy = "avalanche" THEN simulation' ELSE avalanche
  /\ snowball' = IF strategy = "snowball" THEN simulation' ELSE snowball
  /\ pc' = "compare"
  /\ UNCHANGED << debts, extraMonthlyPayment, strategy, sortedDebts, remainingDebts,
                  currentMonth, totalInterestPaid, lastMonth, results, replay,
                  baseline, comparison >>
  /\ UNCHANGED notPayoffVars

\* interestDifference > 1000 ? "avalanche" : "snowball"
RecommendationThreshold == 1000
\* A faulty Recommend: at least the threshold, not more than it.
RecommendAtLeast(interestDifference) ==
  IF interestDifference >= RecommendationThreshold * Unit THEN "avalanche" ELSE "snowball"
Recommend(interestDifference) ==
  IF interestDifference > RecommendationThreshold * Unit THEN "avalanche" ELSE "snowball"

\* Both simulations are there: compareStrategies returns.
Compare ==
  /\ pc = "compare"
  /\ avalanche # None
  /\ snowball # None
  /\ LET interestDifference == snowball.totalInterestPaid - avalanche.totalInterestPaid IN
     comparison' = [avalanche |-> avalanche, snowball |-> snowball,
                    recommendation |-> Recommend(interestDifference),
                    interestDifference |-> Round2(interestDifference)]
  /\ pc' = "done"
  /\ UNCHANGED << debts, extraMonthlyPayment, strategy, sortedDebts, remainingDebts,
                  currentMonth, totalInterestPaid, lastMonth, results, replay,
                  baseline, simulation, avalanche, snowball >>
  /\ UNCHANGED notPayoffVars

Next ==
  \/ SimulateEmpty
  \/ SimulateStart
  \/ CascadeMonth
  \/ CascadeExit
  \/ ReplayStart
  \/ ReplayMonth
  \/ ReplayReturn
  \/ BaselineStart
  \/ BaselineMonth
  \/ BaselineNextDebt
  \/ SimulateReturn
  \/ Compare

Spec == Init /\ [][Next]_vars

TypeOK == pc \in {"compare", "cascade", "replay", "baseline", "done"}
\* -------------------------------------------------------------- rule engine
\* Numbers the rules compare are quotients of integers; a quotient is kept as
\* numerator and denominator and compared exactly.  Infinity is the quotient
\* with denominator 0.
Infinity == [num |-> 1, den |-> 0]
Quotient(a, b) == [num |-> a, den |-> b]
\* (a / b) * 100
Percent(a, b) == [num |-> a * 100, den |-> b]
Lt(r, n) == r.den # 0 /\ r.num < n * r.den
Gt(r, n) == r.den = 0 \/ r.num > n * r.den
Ge(r, n) == ~Lt(r, n)
Le(r, n) == ~Gt(r, n)

\* A rule that returns null.
Null == [null |-> TRUE]

\* a / b as JavaScript divides: a zero divisor gives an infinity, 0 / 0 NaN.
NaN == [num |-> 0, den |-> 0]
Divide(a, b) ==
  IF b # 0 THEN Quotient(a, b)
  ELSE IF a > 0 THEN Infinity
  ELSE IF a < 0 THEN [num |-> 0 - 1, den |-> 0] ELSE NaN
\* Math.round(q * 10) / 10: one decimal place, halves rounded up.  An
\* infinity and NaN stay what they are.
RoundTenths(q) ==
  IF q.den = 0 THEN q
  ELSE Quotient((2 * 10 * q.num + q.den) \div (2 * q.den), 10)

\* calculateSavingsRate(freeCashflow, totalIncome)
calculateSavingsRate(freeCashflow, totalIncome) ==
  IF totalIncome = 0 THEN Quotient(0, 1)
  ELSE RoundTenths(Divide(freeCashflow * 100, totalIncome))

\* A faulty calculateRunway: the test for a zero burn is missing.
calculateRunwayUnguarded(liquidAssets, monthlyExpenses, monthlyEmi) ==
  RoundTenths(Divide(liquidAssets, monthlyExpenses + monthlyEmi))

\* calculateRunway(liquidAssets, monthlyExpenses, monthlyEmi)
calculateRunway(liquidAssets, monthlyExpenses, monthlyEmi) ==
  LET monthlyBurn == monthlyExpenses + monthlyEmi IN
  IF monthlyBurn = 0 THEN Infinity
  ELSE RoundTenths(Divide(liquidAssets, monthlyBurn))

\* calculateDebtToIncomeRatio(totalEmi, totalIncome)
calculateDebtToIncomeRatio(totalEmi, totalIncome) ==
  IF totalIncome = 0 THEN Quotient(0, 1)
  ELSE RoundTenths(Divide(totalEmi * 100, totalIncome))

\* calculateCashflowSummary, given the totals of its three lists.
calculateCashflowSummary(totalIncome, totalExpenses, totalEmi, liquidAssets) ==
  LET freeCashflow == totalIncome - totalExpenses - totalEmi IN
  [totalIncome |-> totalIncome, totalExpenses |-> totalExpenses,
   totalEmi |-> totalEmi, freeCashflow |-> freeCashflow,
   savingsRate |-> calculateSavingsRate(freeCashflow, totalIncome),
   runwayMonths |-> calculateRunway(liquidAssets, totalExpenses, totalEmi)]

\* The aggregated monthly figures the dashboard hands to buildRulesContext.
\* Money is in whole currency units, highestApr in hundredths (15 is 0.15),
\* allocations in percentage points.
Incomes == { 0, 1000 }
ExpenseTotals == { 0, 800, 900, 1000 }
EmiTotals == { 0, 350, 400, 500, 600 }
LiquidAssetTotals == { 0, 2000, 3000, 5000, 6000, 7000 }
CcBalances == { 0, 300, 500, 1000, 1200 }
HighestAprs == { 0, 15, 16 }
DefaultTargets ==
  << [type |-> "equity", target |-> 40], [type |-> "mf", target |-> 25],
     [type |-> "crypto", target |-> 10], [type |-> "gold", target |-> 10],
     [type |-> "realestate", target |-> 10], [type |-> "other", target |-> 5] >>
\* JSON.parse of the stored allocationTargetsJson: the six targets, or null
\* when an import stored "null".
AllocationTargetValues ==
  { [isNull |-> FALSE, entries |-> DefaultTargets],
    [isNull |-> TRUE, entries |-> << >>] }
\* calculateAssetAllocation's results: no assets, the targets met within the
\* threshold, two classes adrift by the same amount, and a second class
\* further adrift than the first.
AssetAllocations ==
  { << >>,
    << [type |-> "cash", percent |-> 5], [type |-> "equity", percent |-> 45],
       [type |-> "mf", percent |-> 20], [type |-> "crypto", percent |-> 10],
       [type |-> "gold", percent |-> 10], [type |-> "realestate", percent |-> 10] >>,
    << [type |-> "equity", percent |-> 25], [type |-> "mf", percent |-> 40],
       [type |-> "crypto", percent |-> 10], [type |-> "gold", percent |-> 10],
       [type |-> "realestate", percent |-> 10], [type |-> "other", percent |-> 5] >>,
    << [type |-> "equity", percent |-> 25], [type |-> "mf", percent |-> 50],
       [type |-> "crypto", percent |-> 10], [type |-> "gold", percent |-> 10],
       [type |-> "realestate", percent |-> 5] >> }
SettingsValues ==
  [emergencyFundMonthsTarget : { 6 },
   emiToIncomeMaxPercent : { 30, 35 },
   ccUtilizationMaxPercent : { 30 },
   allocationTargets : AllocationTargetValues]
DataInputs ==
  [income : Incomes, expenses : ExpenseTotals, emi : EmiTotals,
   liquidAssets : LiquidAssetTotals, ccBalance : CcBalances,
   highestApr : HighestAprs, assetAllocation : AssetAllocations,
   settings : SettingsValues]

\* data.highestApr > 0.15
HighAprThreshold == 15
\* A faulty buildRulesContext: an APR of exactly 0.15 counts as high.
buildRulesContextAtLeast(d) ==
  LET monthlyBurn == d.expenses + d.emi
      freeCashflow == d.income - d.expenses - d.emi
  IN [totalMonthlyIncome |-> d.income,
      totalMonthlyExpenses |-> d.expenses,
      totalMonthlyEmi |-> d.emi,
      freeCashflow |-> freeCashflow,
      savingsRate |-> IF d.income > 0 THEN Percent(freeCashflow, d.income)
                      ELSE Quotient(0, 1),
      liquidAssets |-> d.liquidAssets,
      assetAllocation |-> d.assetAllocation,
      highestDebtApr |-> d.highestApr,
      ccBalance |-> d.ccBalance,
      hasHighAprDebt |-> d.highestApr >= HighAprThreshold,
      emergencyFundMonthsTarget |-> d.settings.emergencyFundMonthsTarget,
      emiToIncomeMaxPercent |-> d.settings.emiToIncomeMaxPercent,
      ccUtilizationMaxPercent |-> d.settings.ccUtilizationMaxPercent,
      allocationTargets |-> d.settings.allocationTargets,
      runwayMonths |-> IF monthlyBurn > 0 THEN Quotient(d.liquidAssets, monthlyBurn)
                       ELSE Infinity,
      debtToIncomeRatio |-> IF d.income > 0 THEN Percent(d.emi, d.income)
                            ELSE Quotient(0, 1)]

\* buildRulesContext(data).  totalAssets and totalLiabilities are copied
\* through and read by no rule; they are left out.
buildRulesContext(d) ==
  LET monthlyBurn == d.expenses + d.emi
      freeCashflow == d.income - d.expenses - d.emi
  IN [totalMonthlyIncome |-> d.income,
      totalMonthlyExpenses |-> d.expenses,
      totalMonthlyEmi |-> d.emi,
      freeCashflow |-> freeCashflow,
      savingsRate |-> IF d.income > 0 THEN Percent(freeCashflow, d.income)
                      ELSE Quotient(0, 1),
      liquidAssets |-> d.liquidAssets,
      assetAllocation |-> d.assetAllocation,
      highestDebtApr |-> d.highestApr,
      ccBalance |-> d.ccBalance,
      hasHighAprDebt |-> d.highestApr > HighAprThreshold,
      emergencyFundMonthsTarget |-> d.settings.emergencyFundMonthsTarget,
      emiToIncomeMaxPercent |-> d.settings.emiToIncomeMaxPercent,
      ccUtilizationMaxPercent |-> d.settings.ccUtilizationMaxPercent,
      allocationTargets |-> d.settings.allocationTargets,
      runwayMonths |-> IF monthlyBurn > 0 THEN Quotient(d.liquidAssets, monthlyBurn)
                       ELSE Infinity,
      debtToIncomeRatio |-> IF d.income > 0 THEN Percent(d.emi, d.income)
                            ELSE Quotient(0, 1)]

\* An Alert: its id, its severity, and the asset class its message names
\* (allocation drift only).
Alert(id, severity, detail) == [id |-> id, severity |-> severity, detail |-> detail]

\* A faulty checkEmergencyFund: the high tier ends at 3 months inclusive.
checkEmergencyFundHighAtThree(c) ==
  IF Ge(c.runwayMonths, c.emergencyFundMonthsTarget) THEN Null
  ELSE Alert("emergency-fund",
             IF Le(c.runwayMonths, 3) THEN "high"
             ELSE IF Lt(c.runwayMonths, 5) THEN "medium" ELSE "low", "")

checkEmergencyFund(c) ==
  IF Ge(c.runwayMonths, c.emergencyFundMonthsTarget) THEN Null
  ELSE Alert("emergency-fund",
             IF Lt(c.runwayMonths, 3) THEN "high"
             ELSE IF Lt(c.runwayMonths, 5) THEN "medium" ELSE "low", "")

\* A faulty checkCreditCardUtilization: at the threshold is over it.
checkCreditCardUtilizationAtThreshold(c) ==
  IF c.ccBalance = 0 \/ c.totalMonthlyIncome = 0 THEN Null
  ELSE LET utilizationPercent == Percent(c.ccBalance, c.totalMonthlyIncome) IN
       IF Lt(utilizationPercent, c.ccUtilizationMaxPercent) THEN Null
       ELSE Alert("cc-utilization",
                  IF Gt(utilizationPercent, 100) THEN "high"
                  ELSE IF Gt(utilizationPercent, 50) THEN "medium" ELSE "low", "")

checkCreditCardUtilization(c) ==
  IF c.ccBalance = 0 \/ c.totalMonthlyIncome = 0 THEN Null
  ELSE LET utilizationPercent == Percent(c.ccBalance, c.totalMonthlyIncome) IN
       IF Le(utilizationPercent, c.ccUtilizationMaxPercent) THEN Null
       ELSE Alert("cc-utilization",
                  IF Gt(utilizationPercent, 100) THEN "high"
                  ELSE IF Gt(utilizationPercent, 50) THEN "medium" ELSE "low", "")

\* A faulty checkEmiToIncome: the medium tier starts at 40 inclusive.
checkEmiToIncomeMediumAtForty(c) ==
  IF c.totalMonthlyIncome = 0 THEN Null
  ELSE LET emiPercent == Percent(c.totalMonthlyEmi, c.totalMonthlyIncome) IN
       IF Le(emiPercent, c.emiToIncomeMaxPercent) THEN Null
       ELSE Alert("emi-income-ratio",
                  IF Gt(emiPercent, 50) THEN "high"
                  ELSE IF Ge(emiPercent, 40) THEN "medium" ELSE "low", "")

checkEmiToIncome(c) ==
  IF c.totalMonthlyIncome = 0 THEN Null
  ELSE LET emiPercent == Percent(c.totalMonthlyEmi, c.totalMonthlyIncome) IN
       IF Le(emiPercent, c.emiToIncomeMaxPercent) THEN Null
       ELSE Alert("emi-income-ratio",
                  IF Gt(emiPercent, 50) THEN "high"
                  ELSE IF Gt(emiPercent, 40) THEN "medium" ELSE "low", "")

checkHighAprDebtWithInvestments(c) ==
  IF ~c.hasHighAprDebt THEN Null
  ELSE LET investmentValue ==
             c.liquidAssets
             - c.emergencyFundMonthsTarget * (c.totalMonthlyExpenses + c.totalMonthlyEmi)
       IN IF investmentValue <= 0 THEN Null
          ELSE Alert("high-apr-with-investments", "medium", "")

\* A faulty checkNegativeCashflow: a cashflow of exactly 0 counts as negative.
checkNegativeCashflowAtZero(c) ==
  IF c.freeCashflow > 0 THEN Null
  ELSE Alert("negative-cashflow", "high", "")

checkNegativeCashflow(c) ==
  IF c.freeCashflow >= 0 THEN Null
  ELSE Alert("negative-cashflow", "high", "")

\* A faulty checkSavingsRate: a savings rate of exactly 0 is suppressed too.
checkSavingsRateZeroSuppressed(c) ==
  IF Ge(c.savingsRate, 20) THEN Null
  ELSE IF Le(c.savingsRate, 0) THEN Null
  ELSE Alert("low-savings-rate",
             IF Lt(c.savingsRate, 5) THEN "medium" ELSE "low", "")

checkSavingsRate(c) ==
  IF Ge(c.savingsRate, 20) THEN Null
  ELSE IF Lt(c.savingsRate, 0) THEN Null
  ELSE Alert("low-savings-rate",
             IF Lt(c.savingsRate, 5) THEN "medium" ELSE "low", "")

\* const driftThreshold = 10
driftThreshold == 10
Abs(x) == IF x < 0 THEN 0 - x ELSE x
\* ctx.assetAllocation[type] || 0
Actual(allocation, type) ==
  IF \E i \in 1..Len(allocation) : allocation[i].type = type
  THEN (CHOOSE a \in { allocation[i] : i \in 1..Len(allocation) } : a.type = type).percent
  ELSE 0
\* The drifts array: the target entries, in their order, that are more than
\* driftThreshold away from the actual share.
Drifts(c) ==
  SelectSeq([i \in 1..Len(c.allocationTargets.entries) |->
              LET e == c.allocationTargets.entries[i] IN
              [type |-> e.type, diff |-> Actual(c.assetAllocation, e.type) - e.target]],
            LAMBDA d : Abs(d.diff) > driftThreshold)
\* A faulty TopDrift: the drifts are not sorted, the first one is reported.
TopDriftFirst(drifts) == drifts[1]

\* drifts.sort((a, b) => Math.abs(b.diff) - Math.abs(a.diff))[0]
TopDrift(drifts) ==
  drifts[CHOOSE i \in 1..Len(drifts) :
           /\ \A j \in 1..Len(drifts) : Abs(drifts[j].diff) <= Abs(drifts[i].diff)
           /\ \A j \in 1..(i - 1) : Abs(drifts[j].diff) < Abs(drifts[i].diff)]
checkAllocationDrift(c) ==
  IF Len(Drifts(c)) = 0 THEN Null
  ELSE Alert("allocation-drift", "low", TopDrift(Drifts(c)).type)

\* A faulty checkNoIncome: only a negative income counts as none.
checkNoIncomeNegativeOnly(c) ==
  IF c.totalMonthlyIncome >= 0 THEN Null
  ELSE Alert("no-income", "medium", "")

checkNoIncome(c) ==
  IF c.totalMonthlyIncome > 0 THEN Null
  ELSE Alert("no-income", "medium", "")

\* const RULES: the catalogue, in order.
RULES ==
  << "checkEmergencyFund", "checkCreditCardUtilization", "checkEmiToIncome",
     "checkHighAprDebtWithInvestments", "checkNegativeCashflow", "checkSavingsRate",
     "checkAllocationDrift", "checkNoIncome" >>

\* rule(ctx) for the rule of that name, when it returns.
Apply(rule, c) ==
  CASE rule = "checkEmergencyFund" -> checkEmergencyFund(c)
    [] rule = "checkCreditCardUtilization" -> checkCreditCardUtilization(c)
    [] rule = "checkEmiToIncome" -> checkEmiToIncome(c)
    [] rule = "checkHighAprDebtWithInvestments" -> checkHighAprDebtWithInvestments(c)
    [] rule = "checkNegativeCashflow" -> checkNegativeCashflow(c)
    [] rule = "checkSavingsRate" -> checkSavingsRate(c)
    [] rule = "checkAllocationDrift" -> checkAllocationDrift(c)
    [] rule = "checkNoIncome" -> checkNoIncome(c)

\* rule(ctx) throws: Object.entries(ctx.allocationTargets) is a TypeError when
\* the targets are null.  No other rule dereferences anything that the
\* contexts of buildRulesContext can leave null.
Throws(rule, c) == rule = "checkAllocationDrift" /\ c.allocationTargets.isNull

\* const severityOrder = { high: 0, medium: 1, low: 2 }
severityOrder(severity) ==
  CASE severity = "high" -> 0 [] severity = "medium" -> 1 [] severity = "low" -> 2

\* A faulty SortBySeverity: the alerts are returned in evaluation order.
SortBySeverityNotSorted(as) == as

\* alerts.sort((a, b) => severityOrder[a.severity] - severityOrder[b.severity]),
\* a stable sort.
SortBySeverity(as) ==
  LET place(i) ==
        1 + Cardinality({ j \in 1..Len(as) :
              \/ severityOrder(as[j].severity) < severityOrder(as[i].severity)
              \/ severityOrder(as[j].severity) = severityOrder(as[i].severity) /\ j < i })
  IN [k \in 1..Len(as) |-> as[CHOOSE i \in 1..Len(as) : place(i) = k]]

\* No payoff simulation is under way.
PayoffIdle ==
  /\ debts = << >>
  /\ extraMonthlyPayment = 0
  /\ pc = "idle"
  /\ strategy = "avalanche"
  /\ sortedDebts = << >>
  /\ remainingDebts = << >>
  /\ currentMonth = 1
  /\ totalInterestPaid = 0
  /\ lastMonth = NoMonth
  /\ results = << >>
  /\ replay = NoReplay
  /\ baseline = NoBaseline
  /\ simulation = None
  /\ avalanche = None
  /\ snowball = None
  /\ comparison = None

\* The dashboard has gathered the monthly figures and the settings.
RulesInit ==
  /\ PayoffIdle
  /\ ImportIdle
  /\ MetricsIdle
  /\ LimiterIdle
  /\ data \in DataInputs
  /\ ctx = None
  /\ rulesPc = "ratio"
  /\ ruleIndex = 0
  /\ alerts = << >>
  /\ logged = << >>
  /\ cashflow = None
  /\ debtToIncome = None

\* The debts page computes calculateDebtToIncomeRatio(totalEmi, income).
DebtToIncomeRatio ==
  /\ rulesPc = "ratio"
  /\ debtToIncome' = calculateDebtToIncomeRatio(data.emi, data.income)
  /\ rulesPc' = "cashflow"
  /\ UNCHANGED << data, ctx, ruleIndex, alerts, logged, cashflow >>
  /\ UNCHANGED notRulesVars

\* getDashboardData computes calculateCashflowSummary from the same figures.
CashflowSummary ==
  /\ rulesPc = "cashflow"
  /\ cashflow' = calculateCashflowSummary(data.income, data.expenses, data.emi,
                                          data.liquidAssets)
  /\ rulesPc' = "build"
  /\ UNCHANGED << data, ctx, ruleIndex, alerts, logged, debtToIncome >>
  /\ UNCHANGED notRulesVars

\* buildRulesContext(data) returns and evaluateRules(ctx) is entered.
BuildContext ==
  /\ rulesPc = "build"
  /\ ctx' = buildRulesContext(data)
  /\ rulesPc' = "evaluate"
  /\ ruleIndex' = 1
  /\ alerts' = << >>
  /\ UNCHANGED << data, logged, cashflow, debtToIncome >>
  /\ UNCHANGED notRulesVars

\* One turn of the for loop over RULES in which rule(ctx) returns: an alert
\* is pushed, null is not.
RuleReturns ==
  /\ rulesPc = "evaluate"
  /\ ruleIndex <= Len(RULES)
  /\ ~Throws(RULES[ruleIndex], ctx)
  /\ LET alert == Apply(RULES[ruleIndex], ctx) IN
     alerts' = IF alert # Null THEN Append(alerts, alert) ELSE alerts
  /\ ruleIndex' = ruleIndex + 1
  /\ UNCHANGED << data, ctx, rulesPc, logged, cashflow, debtToIncome >>
  /\ UNCHANGED notRulesVars

\* A faulty RuleThrows: the try block is around the whole loop, a failure
\* ends the loop.
RuleThrowsEndsLoop ==
  /\ rulesPc = "evaluate"
  /\ ruleIndex <= Len(RULES)
  /\ Throws(RULES[ruleIndex], ctx)
  /\ logged' = Append(logged, RULES[ruleIndex])
  /\ ruleIndex' = Len(RULES) + 1
  /\ UNCHANGED << data, ctx, rulesPc, alerts, cashflow, debtToIncome >>
  /\ UNCHANGED notRulesVars

\* One turn of the for loop in which rule(ctx) throws: the catch block logs
\* the failure and the loop goes on.
RuleThrows ==
  /\ rulesPc = "evaluate"
  /\ ruleIndex <= Len(RULES)
  /\ Throws(RULES[ruleIndex], ctx)
  /\ logged' = Append(logged, RULES[ruleIndex])
  /\ ruleIndex' = ruleIndex + 1
  /\ UNCHANGED << data, ctx, rulesPc, alerts, cashflow, debtToIncome >>
  /\ UNCHANGED notRulesVars

\* The loop is over: the alerts are sorted by severity and returned.
ReturnAlerts ==
  /\ rulesPc = "evaluate"
  /\ ruleIndex > Len(RULES)
  /\ alerts' = SortBySeverity(alerts)
  /\ rulesPc' = "returned"
  /\ UNCHANGED << data, ctx, ruleIndex, logged, cashflow, debtToIncome >>
  /\ UNCHANGED notRulesVars

RulesNext ==
  \/ DebtToIncomeRatio
  \/ CashflowSummary
  \/ BuildContext
  \/ RuleReturns
  \/ RuleThrows
  \/ ReturnAlerts

RulesSpec == RulesInit /\ [][RulesNext]_vars

\* ------------------------------------------------------------------- import
\* The number of importData calls in a run.
MaxImports == 3

\* The tables.  A row of accounts, debts, incomeStreams and expenseItems is
\* [id, name, value], value standing for its other columns; a row of assets
\* is the same; a row of holdings is [id, assetId, units, avgCost].  nextId is
\* the id the next created row gets.
NoSettings == [present |-> FALSE, value |-> 0]
EmptyDb ==
  [accounts |-> << >>, assets |-> << >>, holdings |-> << >>, debts |-> << >>,
   incomeStreams |-> << >>, expenseItems |-> << >>, settings |-> NoSettings,
   nextId |-> 10]
SeededDb ==
  [accounts |-> << [id |-> 1, name |-> "a", value |-> 1] >>,
   assets |-> << [id |-> 2, name |-> "x", value |-> 1] >>,
   holdings |-> << [id |-> 3, assetId |-> 2, units |-> 5, avgCost |-> 10] >>,
   debts |-> << [id |-> 4, name |-> "d", value |-> 1] >>,
   incomeStreams |-> << [id |-> 5, name |-> "i", value |-> 1] >>,
   expenseItems |-> << [id |-> 6, name |-> "e", value |-> 1] >>,
   settings |-> [present |-> TRUE, value |-> 6],
   nextId |-> 10]

\* The parsed files importData is given.  An asset's id 0 is an id the file
\* leaves out; 101 and 102 are ids of another database.
ExportOfSeeded ==
  [accounts |-> << [name |-> "a", value |-> 1] >>,
   assets |-> << [id |-> 2, name |-> "x", value |-> 1] >>,
   holdings |-> << [assetId |-> 2, units |-> 5, avgCost |-> 10] >>,
   debts |-> << [name |-> "d", value |-> 1] >>,
   incomeStreams |-> << [name |-> "i", value |-> 1] >>,
   expenseItems |-> << [name |-> "e", value |-> 1] >>,
   settings |-> [present |-> TRUE, value |-> 6]]
ExportOfOther ==
  [accounts |-> << [name |-> "a", value |-> 2], [name |-> "b", value |-> 1],
                   [name |-> "b", value |-> 3] >>,
   assets |-> << [id |-> 101, name |-> "x", value |-> 2],
                 [id |-> 102, name |-> "y", value |-> 1],
                 [id |-> 0, name |-> "z", value |-> 1] >>,
   holdings |-> << [assetId |-> 101, units |-> 5, avgCost |-> 10],
                   [assetId |-> 102, units |-> 1, avgCost |-> 1],
                   [assetId |-> 102, units |-> 1, avgCost |-> 1],
                   [assetId |-> 999, units |-> 1, avgCost |-> 1] >>,
   debts |-> << [name |-> "d", value |-> 2], [name |-> "f", value |-> 1] >>,
   incomeStreams |-> << [name |-> "i", value |-> 2] >>,
   expenseItems |-> << [name |-> "e", value |-> 2], [name |-> "g", value |-> 1] >>,
   settings |-> [present |-> TRUE, value |-> 7]]
NothingToImport ==
  [accounts |-> << >>, assets |-> << >>, holdings |-> << >>, debts |-> << >>,
   incomeStreams |-> << >>, expenseItems |-> << >>, settings |-> NoSettings]
HoldingsOnly ==
  [accounts |-> << >>, assets |-> << >>,
   holdings |-> << [assetId |-> 2, units |-> 7, avgCost |-> 10] >>,
   debts |-> << >>, incomeStreams |-> << >>, expenseItems |-> << >>,
   settings |-> NoSettings]
SecondAssetId ==
  [accounts |-> << [name |-> "b", value |-> 5] >>,
   assets |-> << [id |-> 101, name |-> "y", value |-> 3],
                 [id |-> 101, name |-> "x", value |-> 3] >>,
   holdings |-> << [assetId |-> 101, units |-> 2, avgCost |-> 2] >>,
   debts |-> << >>, incomeStreams |-> << >>, expenseItems |-> << >>,
   settings |-> [present |-> TRUE, value |-> 8]]
ImportFiles ==
  { ExportOfSeeded, ExportOfOther, NothingToImport, HoldingsOnly, SecondAssetId }

\* One of the loops "skip if name exists" over accounts, debts, income
\* streams or expense items: st = [rows, nextId, imported].
RECURSIVE ImportNamed(_, _, _)
ImportNamed(st, fileRows, i) ==
  IF i > Len(fileRows) THEN st
  ELSE LET row == fileRows[i]
           existing == \E k \in 1..Len(st.rows) : st.rows[k].name = row.name
       IN ImportNamed(
            IF existing THEN st
            ELSE [rows |-> Append(st.rows, [id |-> st.nextId, name |-> row.name,
                                            value |-> row.value]),
                  nextId |-> st.nextId + 1,
                  imported |-> st.imported + 1],
            fileRows, i + 1)

\* assetIdMap.get(key), 0 when the key is not set; a later set of the same
\* key replaces the earlier one.
MapGet(assetIdMap, key) ==
  LET at == { k \in 1..Len(assetIdMap) : assetIdMap[k].from = key } IN
  IF at = {} THEN 0
  ELSE assetIdMap[CHOOSE k \in at : \A j \in at : j <= k].to

\* The loop over data.assets: st = [rows, nextId, imported, assetIdMap].
RECURSIVE ImportAssets(_, _, _)
ImportAssets(st, fileRows, i) ==
  IF i > Len(fileRows) THEN st
  ELSE LET asset == fileRows[i]
           found == { k \in 1..Len(st.rows) : st.rows[k].name = asset.name }
           existing == st.rows[CHOOSE k \in found : \A j \in found : k <= j]
           mapped(to) == IF asset.id # 0
                         THEN Append(st.assetIdMap, [from |-> asset.id, to |-> to])
                         ELSE st.assetIdMap
       IN ImportAssets(
            IF found # {}
            THEN [st EXCEPT !.assetIdMap = mapped(existing.id)]
            ELSE [rows |-> Append(st.rows, [id |-> st.nextId, name |-> asset.name,
                                            value |-> asset.value]),
                  nextId |-> st.nextId + 1,
                  imported |-> st.imported + 1,
                  assetIdMap |-> mapped(st.nextId)],
            fileRows, i + 1)

\* A faulty ImportHoldings: the holding is created without looking for an
\* existing one.
RECURSIVE ImportHoldingsUnchecked(_, _, _, _, _)
ImportHoldingsUnchecked(st, fileRows, assetIdMap, assets, i) ==
  IF i > Len(fileRows) THEN st
  ELSE LET holding == fileRows[i]
           mappedId == MapGet(assetIdMap, holding.assetId)
           newAssetId == IF mappedId # 0 THEN mappedId ELSE holding.assetId
           asset == \E k \in 1..Len(assets) : assets[k].id = newAssetId
       IN ImportHoldingsUnchecked(
            IF ~asset THEN st
            ELSE [rows |-> Append(st.rows, [id |-> st.nextId, assetId |-> newAssetId,
                                            units |-> holding.units,
                                            avgCost |-> holding.avgCost]),
                  nextId |-> st.nextId + 1,
                  imported |-> st.imported + 1],
            fileRows, assetIdMap, assets, i + 1)

\* The loop over data.holdings: st = [rows, nextId, imported]; assets is the
\* assets table after the loop over data.assets.
RECURSIVE ImportHoldings(_, _, _, _, _)
ImportHoldings(st, fileRows, assetIdMap, assets, i) ==
  IF i > Len(fileRows) THEN st
  ELSE LET holding == fileRows[i]
           mappedId == MapGet(assetIdMap, holding.assetId)
           newAssetId == IF mappedId # 0 THEN mappedId ELSE holding.assetId
           asset == \E k \in 1..Len(assets) : assets[k].id = newAssetId
           existing == \E k \in 1..Len(st.rows) :
                         /\ st.rows[k].assetId = newAssetId
                         /\ st.rows[k].units = holding.units
                         /\ st.rows[k].avgCost = holding.avgCost
       IN ImportHoldings(
            IF ~asset \/ existing THEN st
            ELSE [rows |-> Append(st.rows, [id |-> st.nextId, assetId |-> newAssetId,
                                            units |-> holding.units,
                                            avgCost |-> holding.avgCost]),
                  nextId |-> st.nextId + 1,
                  imported |-> st.imported + 1],
            fileRows, assetIdMap, assets, i + 1)

\* importData(data) on the tables d: the tables afterwards and the count it
\* returns.
importData(d, file) ==
  LET accounts == ImportNamed([rows |-> d.accounts, nextId |-> d.nextId,
                               imported |-> 0], file.accounts, 1)
      assets == ImportAssets([rows |-> d.assets, nextId |-> accounts.nextId,
                              imported |-> accounts.imported,
                              assetIdMap |-> << >>], file.assets, 1)
      holdings == ImportHoldings([rows |-> d.holdings, nextId |-> assets.nextId,
                                  imported |-> assets.imported],
                                 file.holdings, assets.assetIdMap, assets.rows, 1)
      debtRows == ImportNamed([rows |-> d.debts, nextId |-> holdings.nextId,
                               imported |-> holdings.imported], file.debts, 1)
      incomes == ImportNamed([rows |-> d.incomeStreams, nextId |-> debtRows.nextId,
                              imported |-> debtRows.imported], file.incomeStreams, 1)
      expenses == ImportNamed([rows |-> d.expenseItems, nextId |-> incomes.nextId,
                               imported |-> incomes.imported], file.expenseItems, 1)
  IN [db |-> [accounts |-> accounts.rows, assets |-> assets.rows,
              holdings |-> holdings.rows, debts |-> debtRows.rows,
              incomeStreams |-> incomes.rows, expenseItems |-> expenses.rows,
              settings |-> IF file.settings.present THEN file.settings ELSE d.settings,
              nextId |-> expenses.nextId],
      imported |-> expenses.imported]

\* The database before the first import: empty, or holding one row per table.
ImportInit ==
  /\ PayoffIdle
  /\ RulesIdle
  /\ MetricsIdle
  /\ LimiterIdle
  /\ db \in { EmptyDb, SeededDb }
  /\ dbInitial = db
  /\ importCount = 0
  /\ lastImport = None

\* The user picks a file and importData runs to its end.
ImportData ==
  /\ importCount < MaxImports
  /\ \E file \in ImportFiles :
       LET returned == importData(db, file) IN
       /\ db' = returned.db
       /\ lastImport' = [data |-> file,
                         previous |-> IF lastImport = None THEN None
                                      ELSE lastImport.data,
                         imported |-> returned.imported,
                         before |-> db]
  /\ importCount' = importCount + 1
  /\ UNCHANGED dbInitial
  /\ UNCHANGED notImportVars

ImportNext == ImportData

ImportSpec == ImportInit /\ [][ImportNext]_vars

\* ------------------------------------------------------------- debt metrics
\* The debts calculateDebtMetrics may be given (balance >= 0, a paid-off debt
\* has balance 0): amounts in whole currency units, apr in hundredths.
MetricsBalances == { 0, 50, 200 }
MetricsAprs == { 0, 12, 42 }
MetricsMinPayments == { 10, 20 }
MetricsDebts ==
  [balance : MetricsBalances, apr : MetricsAprs, minPayment : MetricsMinPayments]
MetricsDebtLists == UNION { [1..n -> MetricsDebts] : n \in 0..MaxDebts }

\* debts.reduce((sum, d) => sum + f(d), 0)
RECURSIVE Reduce(_, _, _)
Reduce(ds, field, i) ==
  IF i > Len(ds) THEN 0 ELSE ds[i][field] + Reduce(ds, field, i + 1)
RECURSIVE AprTimesBalance(_, _)
AprTimesBalance(ds, i) ==
  IF i > Len(ds) THEN 0 ELSE ds[i].apr * ds[i].balance + AprTimesBalance(ds, i + 1)

\* Math.round(q * 10000) / 10000.  An infinity and NaN stay what they are.
RoundTenThousandths(q) ==
  IF q.den = 0 THEN q
  ELSE Quotient((2 * 10000 * q.num + q.den) \div (2 * q.den), 10000)

\* calculateDebtMetrics(debts); weightedAvgApr is a quotient, the apr sum is
\* in hundredths and so divided by AprScale as well.
calculateDebtMetrics(ds) ==
  IF Len(ds) = 0
  THEN [totalDebt |-> 0, totalMonthlyEmi |-> 0, weightedAvgApr |-> Quotient(0, 1),
        highestApr |-> 0, lowestBalance |-> 0]
  ELSE LET totalDebt == Reduce(ds, "balance", 1)
           totalMonthlyEmi == Reduce(ds, "minPayment", 1)
           weightedApr == Divide(AprTimesBalance(ds, 1), AprScale * totalDebt)
       IN [totalDebt |-> totalDebt,
           totalMonthlyEmi |-> totalMonthlyEmi,
           weightedAvgApr |-> RoundTenThousandths(weightedApr),
           highestApr |-> CHOOSE a \in { ds[i].apr : i \in 1..Len(ds) } :
                            \A i \in 1..Len(ds) : ds[i].apr <= a,
           lowestBalance |-> CHOOSE b \in { ds[i].balance : i \in 1..Len(ds) } :
                               \A i \in 1..Len(ds) : b <= ds[i].balance]

MetricsInit ==
  /\ PayoffIdle
  /\ RulesIdle
  /\ ImportIdle
  /\ LimiterIdle
  /\ metricsDebts \in MetricsDebtLists
  /\ metrics = None

\* calculateDebtMetrics is called and returns.
DebtMetrics ==
  /\ metrics = None
  /\ metrics' = calculateDebtMetrics(metricsDebts)
  /\ UNCHANGED metricsDebts
  /\ UNCHANGED notMetricsVars

MetricsNext == DebtMetrics

MetricsSpec == MetricsInit /\ [][MetricsNext]_vars

\* ------------------------------------------------------------- rate limiter
\* const MIN_REQUEST_INTERVAL_MS = 1500
MIN_REQUEST_INTERVAL_MS == 1500
\* Date.now() moves in steps of a third of the interval.
TickMs == MIN_REQUEST_INTERVAL_MS \div 3
\* The number of fetchPrice / fetchPrices calls, and of steps of the clock.
MaxCallers == 3
MaxTicks == 6
Callers == 1..MaxCallers
Methods == { "fetchPrice", "fetchPrices" }
\* Date.now() at the first call; lastRequestTime starts at 0, which is longer
\* ago than the interval.
StartTime == MIN_REQUEST_INTERVAL_MS

\* The calls have not begun; each is a fetchPrice or a fetchPrices for a
\* symbol that is not in the cache.
LimiterInit ==
  /\ PayoffIdle
  /\ RulesIdle
  /\ ImportIdle
  /\ MetricsIdle
  /\ clock = StartTime
  /\ lastRequestTime = 0
  /\ callerPc \in [Callers -> [at : {"idle"}, method : Methods]]
  /\ wakeAt = [c \in Callers |-> 0]
  /\ requests = << >>

\* lastRequestTime = Date.now(), waitForRateLimit returns and the caller's
\* fetch(...) goes out: only promise continuations run in between.
SendRequest(c) ==
  /\ lastRequestTime' = clock
  /\ requests' = Append(requests, [caller |-> c, method |-> callerPc[c].method,
                                   time |-> clock])
  /\ callerPc' = [callerPc EXCEPT ![c].at = "fetching"]

\* A call runs up to waitForRateLimit and through it to its first await:
\* with the interval over it sends at once, otherwise it sets its timer for
\* the rest of the interval.
WaitForRateLimit(c) ==
  /\ callerPc[c].at = "idle"
  /\ LET now == clock
         timeSinceLastRequest == now - lastRequestTime
     IN IF timeSinceLastRequest < MIN_REQUEST_INTERVAL_MS
        THEN /\ wakeAt' = [wakeAt EXCEPT ![c] =
                              now + (MIN_REQUEST_INTERVAL_MS - timeSinceLastRequest)]
             /\ callerPc' = [callerPc EXCEPT ![c].at = "waiting"]
             /\ UNCHANGED << lastRequestTime, requests >>
        ELSE /\ SendRequest(c)
             /\ UNCHANGED wakeAt
  /\ UNCHANGED clock
  /\ UNCHANGED notLimiterVars

\* The call's setTimeout is due (or overdue) and its callback runs.
TimerFires(c) ==
  /\ callerPc[c].at = "waiting"
  /\ clock >= wakeAt[c]
  /\ SendRequest(c)
  /\ UNCHANGED << clock, wakeAt >>
  /\ UNCHANGED notLimiterVars

\* The response arrives and the call returns.
Respond(c) ==
  /\ callerPc[c].at = "fetching"
  /\ callerPc' = [callerPc EXCEPT ![c].at = "returned"]
  /\ UNCHANGED << clock, lastRequestTime, wakeAt, requests >>
  /\ UNCHANGED notLimiterVars

\* Time passes.
Tick ==
  /\ clock < StartTime + MaxTicks * TickMs
  /\ clock' = clock + TickMs
  /\ UNCHANGED << lastRequestTime, callerPc, wakeAt, requests >>
  /\ UNCHANGED notLimiterVars

LimiterNext ==
  \/ \E c \in Callers : WaitForRateLimit(c)
  \/ \E c \in Callers : TimerFires(c)
  \/ \E c \in Callers : Respond(c)
  \/ Tick

LimiterSpec == LimiterInit /\ [][LimiterNext]_vars

\* ------------------------------------------------------------------ claims
\* Was the debt at position i unpaid when the last cascading month began?
\* (A debt that is unpaid at the start of a month is never skipped in it.)
PaidLastMonth(i) == ~lastMonth.rows[i].skipped

\* C1: in every month of the cascading loop only the debt that was the first
\* unpaid one when the month began receives more than its own minPayment, and
\* every other unpaid debt receives min(minPayment, balance + interest).
C1_OnlyPriorityGetsExtra ==
  lastMonth.ran =>
    \A i \in 1..Len(lastMonth.rows) :
      (PaidLastMonth(i) /\ i # lastMonth.priority) =>
        lastMonth.rows[i].payment =
          Min(remainingDebts[i].minPayment,
              lastMonth.rows[i].before + lastMonth.rows[i].interest)

\* C2: in the cascading loop, the replay and the baseline a month's payment is
\* at most balance + interest, no running balance is negative, and a debt
\* marked paid has balance 0.
StepCapped(step) == step.ran => step.payment <= step.before + step.interest
C2_PaymentCapped ==
  /\ lastMonth.ran =>
       \A i \in 1..Len(lastMonth.rows) :
         PaidLastMonth(i) =>
           lastMonth.rows[i].payment <= lastMonth.rows[i].before + lastMonth.rows[i].interest
  /\ \A i \in 1..Len(remainingDebts) :
       /\ remainingDebts[i].currentBalance >= 0
       /\ remainingDebts[i].paid => remainingDebts[i].currentBalance = 0
  /\ replay.active => StepCapped(replay.step) /\ replay.balance >= 0
  /\ baseline.active => StepCapped(baseline.step) /\ baseline.balance >= 0

\* C2 witness: a month in which the cap decided the priority debt's payment and
\* the debt was marked paid, while a replay month was capped as well later on.
C2_Witness ==
  /\ lastMonth.ran
  /\ \E i \in 1..Len(lastMonth.rows) :
       /\ PaidLastMonth(i)
       /\ lastMonth.rows[i].payment = lastMonth.rows[i].before + lastMonth.rows[i].interest
       /\ lastMonth.rows[i].payment < remainingDebts[i].minPayment + lastMonth.totalExtra
       /\ remainingDebts[i].paid
  /\ replay.active /\ replay.step.ran
  /\ replay.step.payment = replay.step.before + replay.step.interest
  /\ replay.step.payment < replay.monthlyPayment

\* C3: the cascading loop ends when every debt is paid or after 600 simulated
\* months: if a debt is still unpaid when it ends, it has run 600 months.
CascadeOver == pc \in {"replay", "baseline"}
C3_CascadeRunsToCap ==
  (CascadeOver /\ \E i \in 1..Len(remainingDebts) : Unpaid(remainingDebts[i]))
    => currentMonth - 1 = maxMonths

\* The simulations compareStrategies holds so far.
Returned == {avalanche, snowball} \ {None}
\* The order simulatePayoff(debts, strat, ...) works in, from the claim's words:
\* apr descending or balance ascending, ties in the caller's order.
InOrder(strat, a, b) ==
  IF strat = "avalanche"
  THEN a.apr > b.apr \/ (a.apr = b.apr /\ a.id < b.id)
  ELSE a.balance < b.balance \/ (a.balance = b.balance /\ a.id < b.id)
IsFirst(strat, d) ==
  \A i \in 1..Len(debts) : debts[i].id # d.id => InOrder(strat, d, debts[i])
\* The monthly payment the isolated replay of d is to use.
IsolatedPayment(strat, d) ==
  d.minPayment + (IF IsFirst(strat, d) THEN extraMonthlyPayment ELSE 0)

\* minPayment * 12 > balance * apr
Amortizing(d) == d.minPayment > MulDiv(d.balance, d.apr, 12 * AprScale)
\* (minPayment - balance * apr / 12) * 599 >= balance
CoveredBeforeCap(d) ==
  d.minPayment - MulDiv(d.balance, d.apr, 12 * AprScale)
    >= (d.balance + (maxMonths - 2)) \div (maxMonths - 1)

\* C4 as stated: if every debt has minPayment * 12 > balance * apr, totalMonths
\* is below 600.
C4_AmortizingEndsBeforeCap ==
  \A sim \in Returned :
    (\A i \in 1..Len(debts) : Amortizing(debts[i])) => sim.totalMonths < maxMonths

\* C4 amended: totalMonths never exceeds 600, and it is below 600 if for every
\* debt the first month's principal under its minPayment, taken 599 times,
\* covers the balance.
C4_CoveredEndsBeforeCap ==
  \A sim \in Returned :
    /\ sim.totalMonths <= maxMonths
    /\ (\A i \in 1..Len(debts) : CoveredBeforeCap(debts[i])) => sim.totalMonths < maxMonths

\* C4 witness: such a debt set whose last debt is paid in month 599.
C4_Witness ==
  /\ avalanche # None /\ snowball # None
  /\ Len(debts) > 0
  /\ \A i \in 1..Len(debts) : CoveredBeforeCap(debts[i])
  /\ avalanche.totalMonths = maxMonths - 1

\* C5: with minPayment * 12 > balance * apr the balance of the isolated
\* simulation goes down in every month (replay and baseline), and the balances
\* of the monthly breakdown never go up.
C5_BalanceDecreases ==
  /\ (replay.active /\ replay.step.ran /\ Amortizing(sortedDebts[replay.debt])) =>
       /\ replay.balance < replay.step.before
       /\ replay.lastRow.balance <= Round2(replay.step.before)
       /\ replay.prevRow # None => replay.lastRow.balance <= replay.prevRow.balance
  /\ (baseline.active /\ baseline.step.ran /\ Amortizing(debts[baseline.debt])) =>
       baseline.balance < baseline.step.before

\* C5 witness: month 300 of a replay at the bare minPayment of a debt that
\* amortizes, its balance still above 0.01.
C5_Witness ==
  /\ replay.active /\ replay.step.ran
  /\ Amortizing(sortedDebts[replay.debt])
  /\ replay.monthlyPayment = sortedDebts[replay.debt].minPayment
  /\ replay.month > 300
  /\ replay.balance > Cent
  /\ replay.lastRow.balance < replay.prevRow.balance

\* payment < first month's interest
Underpaid(d, payment) == payment < MulDiv(d.balance, d.apr, 12 * AprScale)

\* C6: a debt whose replay payment is below its first month's interest grows
\* every month in the replay and in the baseline, both stop at the cap with a
\* balance above zero, its payoffMonth and totalMonths are 600, and the call
\* returns its result.
C6_UnderpaidRunsToCap ==
  /\ (replay.active /\ replay.step.ran
        /\ Underpaid(sortedDebts[replay.debt],
                     IsolatedPayment(strategy, sortedDebts[replay.debt]))) =>
       replay.balance > replay.step.before
  /\ \A k \in 1..Len(results) :
       Underpaid(sortedDebts[k], IsolatedPayment(strategy, sortedDebts[k])) =>
         results[k].payoffMonth = maxMonths /\ results[k].finalBalance > 0
  /\ (baseline.active /\ baseline.debt <= Len(debts)
        /\ Underpaid(debts[baseline.debt], IsolatedPayment(strategy, debts[baseline.debt]))) =>
       /\ baseline.step.ran => baseline.balance > baseline.step.before
       /\ ~BaselineRuns => baseline.months = maxMonths /\ baseline.balance > 0
  /\ \A sim \in Returned :
       (\E i \in 1..Len(debts) :
          Underpaid(debts[i], IsolatedPayment(sim.strategy, debts[i]))) =>
         /\ sim.totalMonths = maxMonths
         /\ \E k \in 1..Len(sim.debts) : sim.debts[k].payoffMonth = maxMonths

\* C6 witness: both calls have returned for a list with a debt that is paid
\* below its interest in the avalanche replay and not in the snowball replay
\* (where it is first and gets the extra payment).
C6_Witness ==
  /\ pc = "done"
  /\ extraMonthlyPayment > 0
  /\ \E i \in 1..Len(debts) :
       /\ Underpaid(debts[i], IsolatedPayment("avalanche", debts[i]))
       /\ ~Underpaid(debts[i], IsolatedPayment("snowball", debts[i]))
  /\ avalanche.totalMonths = maxMonths

\* C7: sortForAvalanche and sortForSnowball return a permutation of the list,
\* by apr descending and by balance ascending, equal keys in the list's order;
\* the list itself stays as the caller passed it (ids are its positions).
IsPermutation(sorted, ds) ==
  /\ Len(sorted) = Len(ds)
  /\ \A i \in 1..Len(ds) : \E j \in 1..Len(sorted) : sorted[j] = ds[i]
C7_SortStable ==
  /\ \A i \in 1..Len(debts) : debts[i].id = i
  /\ pc \in {"cascade", "replay", "baseline"} =>
       /\ IsPermutation(sortedDebts, debts)
       /\ \A i, j \in 1..Len(sortedDebts) :
            i < j =>
              IF strategy = "avalanche"
              THEN /\ sortedDebts[i].apr >= sortedDebts[j].apr
                   /\ sortedDebts[i].apr = sortedDebts[j].apr =>
                        sortedDebts[i].id < sortedDebts[j].id
              ELSE /\ sortedDebts[i].balance <= sortedDebts[j].balance
                   /\ sortedDebts[i].balance = sortedDebts[j].balance =>
                        sortedDebts[i].id < sortedDebts[j].id

\* C7 witness: a call in which the snowball order differs from the list's and
\* the list has two debts of equal apr whose balances are out of order.
C7_Witness ==
  /\ pc = "cascade" /\ strategy = "snowball"
  /\ Len(debts) = 2
  /\ debts[1].apr = debts[2].apr
  /\ debts[1].balance > debts[2].balance
  /\ sortedDebts[1].id = 2
  /\ avalanche.debts[1].debtId = 1

\* C8: for an empty list both calls return the zero simulation, with the
\* strategy and extra payment they were given, and no month is simulated.
C8_EmptyList ==
  Len(debts) = 0 =>
    /\ pc \in {"compare", "done"}
    /\ ~lastMonth.ran /\ currentMonth = 1 /\ results = << >>
    /\ ~replay.active /\ ~baseline.active
    /\ \A sim \in Returned :
         /\ sim.debts = << >>
         /\ sim.totalMonths = 0 /\ sim.totalInterestPaid = 0
         /\ sim.monthsSaved = 0 /\ sim.interestSaved = 0
         /\ sim.extraPayment = extraMonthlyPayment
    /\ avalanche # None => avalanche.strategy = "avalanche"
    /\ snowball # None => snowball.strategy = "snowball"

\* C8 witness: both calls have returned for the empty list and a positive
\* extra payment.
C8_Witness ==
  /\ Len(debts) = 0 /\ extraMonthlyPayment > 0
  /\ avalanche # None /\ snowball # None

\* C9: compareStrategies runs both strategies with its extra payment and
\* recommends avalanche exactly if snowball's total interest exceeds
\* avalanche's by more than 1000.
C9_Recommendation ==
  comparison # None =>
    /\ comparison.avalanche.strategy = "avalanche"
    /\ comparison.snowball.strategy = "snowball"
    /\ comparison.avalanche.extraPayment = extraMonthlyPayment
    /\ comparison.snowball.extraPayment = extraMonthlyPayment
    /\ comparison.recommendation \in {"avalanche", "snowball"}
    /\ comparison.recommendation = "avalanche" <=>
         comparison.snowball.totalInterestPaid - comparison.avalanche.totalInterestPaid
           > 1000 * Unit

\* C9 witness: a difference of exactly 1000, for which snowball is recommended.
C9_Witness ==
  /\ comparison # None
  /\ comparison.snowball.totalInterestPaid - comparison.avalanche.totalInterestPaid
       = 1000 * Unit
  /\ comparison.recommendation = "snowball"

\* A difference above 1000 is reached as well, and so is a negative one.
C9_AvalancheReached ==
  comparison # None /\ comparison.recommendation = "avalanche"
C9_NegativeReached ==
  comparison # None /\ comparison.interestDifference < 0

\* C10: totalMonths is the largest payoffMonth of the isolated replays, in
\* which only the first debt in strategy order gets the extra payment; with no
\* extra payment it is the baseline's totalMonths and monthsSaved is 0.
C10_TotalMonthsFromReplays ==
  /\ replay.active =>
       replay.monthlyPayment =
         sortedDebts[replay.debt].minPayment
           + (IF replay.debt = 1 THEN extraMonthlyPayment ELSE 0)
  /\ (pc \in {"compare", "done"} /\ simulation # None /\ Len(debts) > 0) =>
       /\ \A k \in 1..Len(results) : results[k].payoffMonth <= simulation.totalMonths
       /\ \E k \in 1..Len(results) : results[k].payoffMonth = simulation.totalMonths
       /\ simulation.debts = results
       /\ extraMonthlyPayment = 0 =>
            /\ simulation.totalMonths = baseline.maxMonths
            /\ simulation.monthsSaved = 0

\* C10 witness: no extra payment, two debts, and a totalMonths above the
\* number of months the cascading loop ran.
C10_Witness ==
  /\ pc = "done"
  /\ extraMonthlyPayment = 0
  /\ Len(debts) = 2
  /\ simulation.totalMonths > currentMonth - 1
  /\ simulation.totalMonths < maxMonths
  /\ results[1].payoffMonth # results[2].payoffMonth

\* The extra monthly payments a second call of simulatePayoff is given, to
\* set next to the call with extraMonthlyPayment.
OtherExtras == { 1000 * Unit, 50000 * Unit }

\* C11: for the same debts and strategy a larger extra monthly payment never
\* gives a larger totalInterestPaid, and interestSaved is never negative.
C11_MoreExtraNoMoreInterest ==
  /\ \A sim \in Returned : sim.interestSaved >= 0
  /\ pc = "done" =>
       \A sim \in {comparison.avalanche, comparison.snowball} :
         \A y \in OtherExtras :
           IF y <= sim.extraPayment
           THEN sim.totalInterestPaid <= InterestPaid(debts, sim.strategy, y)
           ELSE InterestPaid(debts, sim.strategy, y) <= sim.totalInterestPaid

\* Two debts, a positive extra that saves interest against the baseline and
\* pays strictly less interest than a smaller extra does.
C11_Witness ==
  /\ pc = "done"
  /\ Len(debts) = 2
  /\ extraMonthlyPayment > 0
  /\ comparison.avalanche.interestSaved > 0
  /\ \E y \in OtherExtras :
       /\ y < extraMonthlyPayment
       /\ InterestPaid(debts, "avalanche", y) > comparison.avalanche.totalInterestPaid

\* The operator and the state machine agree on the call that was made.
InterestPaidAgrees ==
  pc = "done" =>
    \A sim \in {comparison.avalanche, comparison.snowball} :
      sim.totalInterestPaid = InterestPaid(debts, sim.strategy, sim.extraPayment)

SameOrder(ds) ==
  \A i, j \in 1..Len(ds) :
    i < j => ((ds[i].apr >= ds[j].apr) <=> (ds[i].balance <= ds[j].balance))

RECURSIVE totalMinPayment(_, _)
totalMinPayment(ds, i) ==
  IF i > Len(ds) THEN 0 ELSE ds[i].minPayment + totalMinPayment(ds, i + 1)

\* The payments of one pass of the cascading loop, added up.
RECURSIVE PaymentsMade(_, _)
PaymentsMade(rows, i) ==
  IF i > Len(rows) THEN 0
  ELSE (IF rows[i].skipped THEN 0 ELSE rows[i].payment) + PaymentsMade(rows, i + 1)

\* C26: in every month of the cascading loop the payments to all debts add
\* up to at most the sum of the minimum payments plus the extra payment.
C26_PaymentsWithinBudget ==
  lastMonth.ran =>
    PaymentsMade(lastMonth.rows, 1) <= totalMinPayment(debts, 1) + extraMonthlyPayment

\* C27: for a single debt and no extra payment simulatePayoff reports no
\* interest saved and no months saved, whether or not the debt ends before
\* the month cap.
C27_SingleDebtIsBaseline ==
  (pc = "done" /\ Len(debts) = 1 /\ extraMonthlyPayment = 0) =>
    /\ comparison.avalanche.interestSaved = 0
    /\ comparison.avalanche.monthsSaved = 0
    /\ comparison.snowball.interestSaved = 0
    /\ comparison.snowball.monthsSaved = 0

\* C28: a debt that enters with a balance of at most 0.01 is never the
\* priority debt, and in every month its minimum payment is part of the
\* extra the priority debt gets.
C28_PaidOnEntryIsFreed ==
  lastMonth.ran =>
    \A i \in 1..Len(sortedDebts) :
      sortedDebts[i].balance <= Cent =>
        /\ lastMonth.priority # i
        /\ lastMonth.totalExtra >= extraMonthlyPayment + sortedDebts[i].minPayment

\* --------------------------------------------------------- rule engine claims
\* The ids of the alerts, in the order of their rules in the catalogue.
RuleIds ==
  << "emergency-fund", "cc-utilization", "emi-income-ratio",
     "high-apr-with-investments", "negative-cashflow", "low-savings-rate",
     "allocation-drift", "no-income" >>
CatalogueIndex(id) == CHOOSE k \in 1..Len(RuleIds) : RuleIds[k] = id
AlertsWithId(id) == { i \in 1..Len(alerts) : alerts[i].id = id }
Emitted(id) == AlertsWithId(id) # {}
SeverityOf(id) == alerts[CHOOSE i \in AlertsWithId(id) : TRUE].severity

\* C13: the list evaluateRules returns is sorted by severity (high, medium,
\* low) and alerts of equal severity are in the order of their rules in the
\* catalogue.
C13_SortedBySeverity ==
  rulesPc = "returned" =>
    \A i, j \in 1..Len(alerts) :
      i < j =>
        /\ severityOrder(alerts[i].severity) <= severityOrder(alerts[j].severity)
        /\ alerts[i].severity = alerts[j].severity =>
             CatalogueIndex(alerts[i].id) < CatalogueIndex(alerts[j].id)

\* A returned list in which the sort moved an alert in front of one of an
\* earlier rule, and in which two alerts have the same severity.
C13_Witness ==
  /\ rulesPc = "returned"
  /\ \E i, j \in 1..Len(alerts) :
       i < j /\ CatalogueIndex(alerts[i].id) > CatalogueIndex(alerts[j].id)
  /\ \E i, j \in 1..Len(alerts) :
       i < j /\ alerts[i].severity = alerts[j].severity
  /\ \E i, j, k \in 1..Len(alerts) :
       /\ alerts[i].severity = "high"
       /\ alerts[j].severity = "medium"
       /\ alerts[k].severity = "low"

\* C14: a context with freeCashflow < 0 gets exactly one alert with id
\* "negative-cashflow", of severity high; a context with freeCashflow >= 0
\* gets none with that id.
C14_NegativeCashflow ==
  rulesPc = "returned" =>
    IF ctx.freeCashflow < 0
    THEN /\ Cardinality(AlertsWithId("negative-cashflow")) = 1
         /\ SeverityOf("negative-cashflow") = "high"
    ELSE ~Emitted("negative-cashflow")

\* A context with income and a negative cashflow, whose alert is returned
\* among others.
C14_Witness ==
  /\ rulesPc = "returned"
  /\ ctx.totalMonthlyIncome > 0
  /\ ctx.freeCashflow < 0
  /\ Emitted("negative-cashflow")
  /\ Len(alerts) > 2

\* C15: a context with freeCashflow < 0 gets no alert with id
\* "low-savings-rate", the contexts buildRulesContext makes for income 0 and
\* positive expenses or EMI included.
C15_NoSavingsAlertWhenNegative ==
  (rulesPc = "returned" /\ ctx.freeCashflow < 0) => ~Emitted("low-savings-rate")

\* The alerts the rules that do not throw return for ctx, in catalogue order.
RECURSIVE AlertsFrom(_)
AlertsFrom(k) ==
  IF k > Len(RuleIds) THEN << >>
  ELSE (IF ~Throws(RULES[k], ctx) /\ Apply(RULES[k], ctx) # Null
        THEN << Apply(RULES[k], ctx) >> ELSE << >>) \o AlertsFrom(k + 1)

\* C16: evaluateRules does not raise: a rule that throws contributes no
\* alert, every other rule of the catalogue is evaluated, and the alerts of
\* the others are returned as if the failing rule had returned nothing.
C16_FailureIsolated ==
  /\ rulesPc = "evaluate" =>
       /\ ruleIndex \in 1..(Len(RULES) + 1)
       /\ \A k \in 1..Len(logged) : Throws(logged[k], ctx)
  /\ rulesPc = "returned" =>
       /\ ruleIndex = Len(RULES) + 1
       /\ \A k \in 1..Len(RULES) :
            IF Throws(RULES[k], ctx)
            THEN ~Emitted(RuleIds[k])
            ELSE Emitted(RuleIds[k]) <=> Apply(RULES[k], ctx) # Null
       /\ alerts = SortBySeverity(AlertsFrom(1))

\* The allocation-drift rule threw, and the rule after it and rules before
\* it have their alerts in the returned list.
C16_Witness ==
  /\ rulesPc = "returned"
  /\ logged = << "checkAllocationDrift" >>
  /\ Emitted("no-income")
  /\ Emitted("emergency-fund")
  /\ ~Emitted("allocation-drift")

\* The monthly burn of the figures the context was built from.
Burn == data.expenses + data.emi

\* C17: the emergency-fund rule emits "emergency-fund" if and only if
\* runwayMonths < emergencyFundMonthsTarget, with severity high when
\* runwayMonths < 3, medium when 3 <= runwayMonths < 5 and low otherwise;
\* with zero monthly burn it emits nothing.
C17_EmergencyFund ==
  rulesPc = "returned" =>
    /\ Burn = 0 => (ctx.runwayMonths = Infinity /\ ~Emitted("emergency-fund"))
    /\ Burn > 0 =>
         /\ Emitted("emergency-fund") <=>
              data.liquidAssets < ctx.emergencyFundMonthsTarget * Burn
         /\ Emitted("emergency-fund") =>
              SeverityOf("emergency-fund") =
                IF data.liquidAssets < 3 * Burn THEN "high"
                ELSE IF data.liquidAssets < 5 * Burn THEN "medium" ELSE "low"

\* A runway of exactly 5 months against a target of 6: the alert is low.
C17_Witness ==
  /\ rulesPc = "returned"
  /\ Burn > 0
  /\ data.liquidAssets = 5 * Burn
  /\ Emitted("emergency-fund")
  /\ SeverityOf("emergency-fund") = "low"

\* A runway of exactly 3 months is reached, and its alert is medium.
C17_TiersReached ==
  /\ rulesPc = "returned"
  /\ Burn > 0
  /\ data.liquidAssets = 3 * Burn
  /\ SeverityOf("emergency-fund") = "medium"

\* C18: the credit-card rule emits "cc-utilization" if and only if
\* ccBalance > 0, totalMonthlyIncome > 0 and ccBalance / totalMonthlyIncome *
\* 100 > ccUtilizationMaxPercent, with severity high when the percentage is
\* above 100, medium when it is above 50 and at most 100, low otherwise.
C18_CcUtilization ==
  rulesPc = "returned" =>
    /\ Emitted("cc-utilization") <=>
         /\ data.ccBalance > 0
         /\ data.income > 0
         /\ data.ccBalance * 100 > ctx.ccUtilizationMaxPercent * data.income
    /\ Emitted("cc-utilization") =>
         SeverityOf("cc-utilization") =
           IF data.ccBalance * 100 > 100 * data.income THEN "high"
           ELSE IF data.ccBalance * 100 > 50 * data.income THEN "medium" ELSE "low"

\* A card balance of exactly half the income: over the threshold, and low.
C18_Witness ==
  /\ rulesPc = "returned"
  /\ data.income > 0
  /\ data.ccBalance * 2 = data.income
  /\ Emitted("cc-utilization")
  /\ SeverityOf("cc-utilization") = "low"

\* The medium and high tiers are reached.
C18_TiersReached ==
  /\ rulesPc = "returned"
  /\ data.ccBalance = data.income
  /\ Emitted("cc-utilization")
  /\ SeverityOf("cc-utilization") = "medium"

\* C19: the EMI rule emits "emi-income-ratio" if and only if
\* totalMonthlyIncome > 0 and totalMonthlyEmi / totalMonthlyIncome * 100 >
\* emiToIncomeMaxPercent, with severity high when the percentage is above 50,
\* medium when it is above 40 and at most 50, low otherwise.
C19_EmiToIncome ==
  rulesPc = "returned" =>
    /\ Emitted("emi-income-ratio") <=>
         /\ data.income > 0
         /\ data.emi * 100 > ctx.emiToIncomeMaxPercent * data.income
    /\ Emitted("emi-income-ratio") =>
         SeverityOf("emi-income-ratio") =
           IF data.emi * 100 > 50 * data.income THEN "high"
           ELSE IF data.emi * 100 > 40 * data.income THEN "medium" ELSE "low"

\* An EMI of exactly 40% of the income: over the threshold, and low.
C19_Witness ==
  /\ rulesPc = "returned"
  /\ data.income > 0
  /\ data.emi * 100 = 40 * data.income
  /\ Emitted("emi-income-ratio")
  /\ SeverityOf("emi-income-ratio") = "low"

\* An EMI of exactly half the income is medium.
C19_TiersReached ==
  /\ rulesPc = "returned"
  /\ data.income > 0
  /\ data.emi * 2 = data.income
  /\ SeverityOf("emi-income-ratio") = "medium"

\* C20: for a context built by buildRulesContext, "high-apr-with-investments"
\* is emitted if and only if the highest debt APR is above 0.15 and
\* liquidAssets - emergencyFundMonthsTarget * (expenses + emi) > 0; its
\* severity is medium.
C20_HighAprWithInvestments ==
  rulesPc = "returned" =>
    /\ Emitted("high-apr-with-investments") <=>
         /\ data.highestApr > 15
         /\ data.liquidAssets
              - data.settings.emergencyFundMonthsTarget * (data.expenses + data.emi) > 0
    /\ Emitted("high-apr-with-investments") =>
         SeverityOf("high-apr-with-investments") = "medium"

\* A debt above 15% and liquid assets above the reserve for a positive burn.
C20_Witness ==
  /\ rulesPc = "returned"
  /\ data.highestApr > 15
  /\ Burn > 0
  /\ Emitted("high-apr-with-investments")
  /\ SeverityOf("high-apr-with-investments") = "medium"

\* A debt of exactly 15% with liquid assets above the reserve is reached.
C20_BoundaryReached ==
  /\ rulesPc = "returned"
  /\ data.highestApr = 15
  /\ data.liquidAssets > data.settings.emergencyFundMonthsTarget * Burn

\* C21: the savings-rate rule emits "low-savings-rate" if and only if
\* 0 <= savingsRate < 20, with severity medium when savingsRate < 5 and low
\* when 5 <= savingsRate < 20.
C21_SavingsRate ==
  rulesPc = "returned" =>
    /\ ctx.savingsRate.den > 0
    /\ Emitted("low-savings-rate") <=>
         /\ 0 <= ctx.savingsRate.num
         /\ ctx.savingsRate.num < 20 * ctx.savingsRate.den
    /\ Emitted("low-savings-rate") =>
         SeverityOf("low-savings-rate") =
           IF ctx.savingsRate.num < 5 * ctx.savingsRate.den THEN "medium" ELSE "low"

\* An income of which a tenth is left over: the alert is low.
C21_Witness ==
  /\ rulesPc = "returned"
  /\ data.income > 0
  /\ (data.income - data.expenses - data.emi) * 10 = data.income
  /\ Emitted("low-savings-rate")
  /\ SeverityOf("low-savings-rate") = "low"

\* A savings rate of exactly 0 with income is reached, and is medium.
C21_ZeroReached ==
  /\ rulesPc = "returned"
  /\ data.income > 0
  /\ data.income = data.expenses + data.emi
  /\ SeverityOf("low-savings-rate") = "medium"

\* The share of an asset class in ctx.assetAllocation, 0 when it is absent.
ShareOf(type) ==
  LET shares == { ctx.assetAllocation[i].percent :
                    i \in { j \in 1..Len(ctx.assetAllocation) :
                              ctx.assetAllocation[j].type = type } }
  IN IF shares = {} THEN 0 ELSE CHOOSE p \in shares : TRUE
\* The distance of the k-th target key from its target.
DriftOf(k) ==
  LET e == ctx.allocationTargets.entries[k]
      diff == ShareOf(e.type) - e.target
  IN IF diff < 0 THEN 0 - diff ELSE diff
TargetKeys == 1..Len(ctx.allocationTargets.entries)

\* C22: the allocation-drift rule emits at most one alert, of severity low,
\* if and only if some key of allocationTargets is more than 10 percentage
\* points from its target (an absent class counts as 0, classes that are not
\* target keys are ignored); the alert names the key with the largest drift,
\* the first in target-key order among equal largest drifts.
C22_AllocationDrift ==
  rulesPc = "returned" =>
    /\ Cardinality(AlertsWithId("allocation-drift")) <= 1
    /\ Emitted("allocation-drift") <=> \E k \in TargetKeys : DriftOf(k) > 10
    /\ Emitted("allocation-drift") =>
         /\ SeverityOf("allocation-drift") = "low"
         /\ \E k \in TargetKeys :
              /\ alerts[CHOOSE i \in AlertsWithId("allocation-drift") : TRUE].detail
                   = ctx.allocationTargets.entries[k].type
              /\ \A j \in TargetKeys : DriftOf(j) <= DriftOf(k)
              /\ \A j \in TargetKeys : j < k => DriftOf(j) < DriftOf(k)

\* The largest drift is not the first target key that drifts.
C22_Witness ==
  /\ rulesPc = "returned"
  /\ Emitted("allocation-drift")
  /\ \E j, k \in TargetKeys :
       /\ j < k
       /\ DriftOf(j) > 10
       /\ DriftOf(k) > DriftOf(j)
       /\ \A i \in TargetKeys : DriftOf(i) <= DriftOf(k)

\* Two keys tie for the largest drift.
C22_TieReached ==
  /\ rulesPc = "returned"
  /\ Emitted("allocation-drift")
  /\ \E j, k \in TargetKeys :
       /\ j < k
       /\ DriftOf(j) = DriftOf(k)
       /\ \A i \in TargetKeys : DriftOf(i) <= DriftOf(k)

\* C23: a context with totalMonthlyIncome = 0 gets exactly one "no-income"
\* alert, of severity medium, and neither "cc-utilization" nor
\* "emi-income-ratio", whatever the card balance and the EMI; a context with
\* totalMonthlyIncome > 0 gets no "no-income" alert.
C23_NoIncome ==
  rulesPc = "returned" =>
    IF ctx.totalMonthlyIncome = 0
    THEN /\ Cardinality(AlertsWithId("no-income")) = 1
         /\ SeverityOf("no-income") = "medium"
         /\ ~Emitted("cc-utilization")
         /\ ~Emitted("emi-income-ratio")
    ELSE ~Emitted("no-income")

\* No income, a card balance and an EMI.
C23_Witness ==
  /\ rulesPc = "returned"
  /\ ctx.totalMonthlyIncome = 0
  /\ ctx.ccBalance > 0
  /\ ctx.totalMonthlyEmi > 0
  /\ Emitted("no-income")

\* A number that is neither NaN nor an infinity.
IsFinite(q) == q.den > 0
IsZero(q) == q.den > 0 /\ q.num = 0

\* C24: no cashflow computation divides by zero: calculateRunway and
\* buildRulesContext give the infinity sentinel whenever expenses + EMI is 0,
\* also for liquidAssets 0; calculateSavingsRate, calculateDebtToIncomeRatio
\* and buildRulesContext give 0 for the savings rate and the debt-to-income
\* ratio whenever income is 0; no result is NaN.
C24_NoDivisionByZero ==
  /\ debtToIncome # None =>
       /\ IsFinite(debtToIncome)
       /\ data.income = 0 => IsZero(debtToIncome)
  /\ cashflow # None =>
       /\ IF Burn = 0 THEN cashflow.runwayMonths = Infinity
          ELSE IsFinite(cashflow.runwayMonths)
       /\ IsFinite(cashflow.savingsRate)
       /\ data.income = 0 => IsZero(cashflow.savingsRate)
  /\ ctx # None =>
       /\ IF Burn = 0 THEN ctx.runwayMonths = Infinity
          ELSE IsFinite(ctx.runwayMonths)
       /\ IsFinite(ctx.savingsRate)
       /\ IsFinite(ctx.debtToIncomeRatio)
       /\ data.income = 0 => (IsZero(ctx.savingsRate) /\ IsZero(ctx.debtToIncomeRatio))

\* No income, no burn and no liquid assets: every quotient would be 0 / 0.
C24_Witness ==
  /\ ctx # None
  /\ cashflow # None
  /\ debtToIncome # None
  /\ data.income = 0
  /\ Burn = 0
  /\ data.liquidAssets = 0
  /\ cashflow.runwayMonths = Infinity
  /\ ctx.runwayMonths = Infinity

\* ---------------------------------------------------------- import claims
NamedTables == { "accounts", "assets", "debts", "incomeStreams", "expenseItems" }
Tables == NamedTables \cup { "holdings" }
RowsOf(d, t) == { d[t][k] : k \in 1..Len(d[t]) }
RECURSIVE RowCount(_, _)
RowCount(d, ts) ==
  IF ts = {} THEN 0
  ELSE LET t == CHOOSE x \in ts : TRUE IN Len(d[t]) + RowCount(d, ts \ {t})

\* C25: importData only adds records: no row that was there before has gone
\* or changed (settings aside), a record whose name exists is skipped, and
\* importing the same data a second time creates nothing and returns 0.
C25_ImportOnlyAdds ==
  lastImport # None =>
    /\ \A t \in Tables :
         /\ RowsOf(dbInitial, t) \subseteq RowsOf(db, t)
         /\ SubSeq(db[t], 1, Len(lastImport.before[t])) = lastImport.before[t]
    /\ \A t \in NamedTables :
         \A k \in (Len(lastImport.before[t]) + 1)..Len(db[t]) :
           \A j \in 1..(k - 1) : db[t][j].name # db[t][k].name
    /\ lastImport.imported = RowCount(db, Tables) - RowCount(lastImport.before, Tables)
    /\ lastImport.previous = lastImport.data =>
         /\ lastImport.imported = 0
         /\ db = lastImport.before

\* The file with names the seeded tables hold, names of its own and
\* holdings was imported twice in a row into the seeded tables: the first
\* import created rows, the second none.
C25_Witness ==
  /\ lastImport # None
  /\ dbInitial = SeededDb
  /\ lastImport.data = ExportOfOther
  /\ lastImport.previous = ExportOfOther
  /\ lastImport.imported = 0
  /\ Len(db.holdings) > Len(dbInitial.holdings)
  /\ Len(db.accounts) > Len(dbInitial.accounts)
  /\ db.settings # dbInitial.settings

\* ----------------------------------------------------- debt metrics claims
\* C29: calculateDebtMetrics never divides by zero: all zeros for the empty
\* list, and for any other list a defined weightedAvgApr (0 when the
\* balances sum to 0), with totalDebt the sum of the balances,
\* totalMonthlyEmi the sum of the minimum payments, highestApr the largest
\* apr and lowestBalance the smallest balance.
C29_MetricsDefined ==
  metrics # None =>
    /\ IsFinite(metrics.weightedAvgApr)
    /\ Len(metricsDebts) = 0 =>
         /\ metrics.totalDebt = 0 /\ metrics.totalMonthlyEmi = 0
         /\ IsZero(metrics.weightedAvgApr)
         /\ metrics.highestApr = 0 /\ metrics.lowestBalance = 0
    /\ Len(metricsDebts) > 0 =>
         /\ metrics.totalDebt = Reduce(metricsDebts, "balance", 1)
         /\ metrics.totalMonthlyEmi = Reduce(metricsDebts, "minPayment", 1)
         /\ metrics.totalDebt = 0 => IsZero(metrics.weightedAvgApr)
         /\ \A i \in 1..Len(metricsDebts) :
              /\ metricsDebts[i].apr <= metrics.highestApr
              /\ metrics.lowestBalance <= metricsDebts[i].balance
         /\ \E i \in 1..Len(metricsDebts) : metricsDebts[i].apr = metrics.highestApr
         /\ \E i \in 1..Len(metricsDebts) : metricsDebts[i].balance = metrics.lowestBalance

\* ----------------------------------------------------- rate limiter claims
\* C30: any two requests sent to CoinGecko are at least 1.5 seconds apart,
\* however the fetchPrice and fetchPrices calls interleave.
C30_RequestsSpacedApart ==
  \A i, j \in 1..Len(requests) :
    i < j => requests[j].time - requests[i].time >= MIN_REQUEST_INTERVAL_MS

====
